---- MODULE Spec2Model ----
(***************************************************************************)
(* A model of the observe trace store: the ingestion transform             *)
(* (flatten_attributes, resolve_span_name, serialize_spans_for_db), the    *)
(* bulk writer (insert_spans_batch), the read operations of                *)
(* backend/database.py and the apps/server ingestion endpoint.             *)
(*                                                                         *)
(* Python strings are sequences of one-character strings, None is the      *)
(* empty tuple and a present optional value x is <<x>>.  A scalar of a     *)
(* flattened attribute dict is a tagged record [t, v].  Timestamps are     *)
(* integers counting milliseconds.                                         *)
(***************************************************************************)
EXTENDS Integers, Sequences, FiniteSets, TLC

VARIABLES input, output, pool, store, call, tasks, held

vars == <<input, output, pool, store, call, tasks, held>>

\* ------------------------------------------------------------------ bounds

MaxAttrs == 2
MaxTokens == 3
MaxSpans == 2
MaxRows == 3
MaxTasks == 2

\* ------------------------------------------------------- values and strings

None == <<>>
Some(x) == <<x>>

TStr(s) == [t |-> "str", v |-> s]
TInt(n) == [t |-> "int", v |-> n]
TFloat(n) == [t |-> "float", v |-> n]
TBool(b) == [t |-> "bool", v |-> b]

DigitChars == <<"0", "1", "2", "3", "4", "5", "6", "7", "8", "9">>
DigitSet == {DigitChars[i] : i \in 1..10}
DigitVal(c) == (CHOOSE i \in 1..10 : DigitChars[i] = c) - 1

RECURSIVE Digits(_)
Digits(n) == IF n < 10 THEN <<DigitChars[n + 1]>>
             ELSE Digits(n \div 10) \o <<DigitChars[(n % 10) + 1]>>

RECURSIVE DigitsValue(_)
DigitsValue(s) == IF Len(s) = 0 THEN 0
                  ELSE 10 * DigitsValue(SubSeq(s, 1, Len(s) - 1)) + DigitVal(s[Len(s)])

\* int(s) and float(s) accept a non-empty run of decimal digits; every other
\* string of the model's alphabet raises ValueError.
IsNumeral(s) == Len(s) > 0 /\ \A i \in 1..Len(s) : s[i] \in DigitSet

\* str(x) of a flattened scalar.  A float of the model is whole: n stands
\* for n.0.
PyStr(x) ==
    CASE x.t = "str" -> x.v
      [] x.t = "int" -> Digits(x.v)
      [] x.t = "float" -> Digits(x.v) \o <<".", "0">>
      [] x.t = "bool" -> IF x.v THEN <<"T", "r", "u", "e">>
                         ELSE <<"F", "a", "l", "s", "e">>

EmptyDict == [k \in {} |-> TInt(0)]
DictPut(d, k, x) == [j \in (DOMAIN d) \cup {k} |-> IF j = k THEN x ELSE d[j]]

\* ------------------------------------------------------ OLTPAttributeValue

AttrValue(s, i, d, b, a) ==
    [stringValue |-> s, intValue |-> i, doubleValue |-> d, boolValue |-> b,
     arrayValue |-> a]

FieldRepr(fname, f) == IF f = None THEN <<fname, "=", "None">> ELSE <<fname, "=", f[1]>>

\* str(attr.value): the pydantic rendering of the whole value, field by field.
ValueRepr(val) ==
    FieldRepr("stringValue", val.stringValue) \o <<" ">> \o
    FieldRepr("intValue", val.intValue) \o <<" ">> \o
    FieldRepr("doubleValue", val.doubleValue) \o <<" ">> \o
    FieldRepr("boolValue", val.boolValue) \o <<" ">> \o
    FieldRepr("arrayValue", val.arrayValue) \o <<" ">> \o
    <<"kvlistValue", "=", "None">>

\* ------------------------------------------------------ flatten_attributes

Returned(x) == [raised |-> FALSE, error |-> "", value |-> x]
Raised(e) == [raised |-> TRUE, error |-> e, value |-> None]

\* The scalar chosen for one attribute value, or the ValueError of int().
FlattenValue(val) ==
    IF val.stringValue # None THEN Returned(TStr(val.stringValue[1]))
    ELSE IF val.intValue # None THEN
        IF IsNumeral(val.intValue[1]) THEN Returned(TInt(DigitsValue(val.intValue[1])))
        ELSE Raised("ValueError")
    ELSE IF val.doubleValue # None THEN Returned(TFloat(val.doubleValue[1]))
    ELSE IF val.boolValue # None THEN Returned(TBool(val.boolValue[1]))
    ELSE Returned(TStr(ValueRepr(val)))

RECURSIVE FlattenFrom(_, _, _)
FlattenFrom(attributes, i, result) ==
    IF i > Len(attributes) THEN Returned(result)
    ELSE LET one == FlattenValue(attributes[i].value)
         IN  IF one.raised THEN Raised(one.error)
             ELSE FlattenFrom(attributes, i + 1,
                              DictPut(result, attributes[i].key, one.value))

flatten_attributes(attributes) == FlattenFrom(attributes, 1, EmptyDict)

\* ------------------------------------------------------- resolve_span_name

WordChars == DigitSet \cup {"a", "b", "c", "d", "k", "x", "y", "P", "D", "T", "r", "u", "e", "_"}

\* The end of the run of \w characters that starts at position i.
RECURSIVE WordEnd(_, _)
WordEnd(s, i) == IF i <= Len(s) /\ s[i] \in WordChars THEN WordEnd(s, i + 1) ELSE i

\* Whether \{(\w+)\} matches at position i, and where the match ends.
MatchEnd(s, i) == WordEnd(s, i + 1)
MatchesAt(s, i) ==
    /\ i <= Len(s)
    /\ s[i] = "{"
    /\ MatchEnd(s, i) > i + 1
    /\ MatchEnd(s, i) <= Len(s)
    /\ s[MatchEnd(s, i)] = "}"

\* re.findall(r"\{(\w+)\}", s): the identifiers of the non-overlapping
\* matches, left to right, repeats kept.
RECURSIVE FindAllFrom(_, _)
FindAllFrom(s, i) ==
    IF i > Len(s) THEN <<>>
    ELSE IF MatchesAt(s, i)
         THEN <<SubSeq(s, i + 1, MatchEnd(s, i) - 1)>> \o FindAllFrom(s, MatchEnd(s, i) + 1)
         ELSE FindAllFrom(s, i + 1)

FindAll(s) == FindAllFrom(s, 1)

\* str.replace(old, new) for a non-empty old: every non-overlapping
\* occurrence, left to right, in one pass.
RECURSIVE ReplaceFrom(_, _, _, _)
ReplaceFrom(s, i, old, new) ==
    IF i > Len(s) THEN <<>>
    ELSE IF i + Len(old) - 1 <= Len(s) /\ SubSeq(s, i, i + Len(old) - 1) = old
         THEN new \o ReplaceFrom(s, i + Len(old), old, new)
         ELSE <<s[i]>> \o ReplaceFrom(s, i + 1, old, new)

Replace(s, old, new) == ReplaceFrom(s, 1, old, new)

RECURSIVE ResolveLoop(_, _, _, _)
ResolveLoop(template_vars, i, attributes, resolved_name) ==
    IF i > Len(template_vars) THEN resolved_name
    ELSE LET var == template_vars[i]
         IN  IF var \in DOMAIN attributes
             THEN ResolveLoop(template_vars, i + 1, attributes,
                      Replace(resolved_name, <<"{">> \o var \o <<"}">>,
                              PyStr(attributes[var])))
             ELSE ResolveLoop(template_vars, i + 1, attributes, resolved_name)

\* resolve_span_name with unmatched placeholders blanked instead of kept.
RECURSIVE ResolveLoopDropping(_, _, _, _)
ResolveLoopDropping(template_vars, i, attributes, resolved_name) ==
    IF i > Len(template_vars) THEN resolved_name
    ELSE LET var == template_vars[i]
         IN  ResolveLoopDropping(template_vars, i + 1, attributes,
                 Replace(resolved_name, <<"{">> \o var \o <<"}">>,
                         IF var \in DOMAIN attributes THEN PyStr(attributes[var])
                         ELSE <<>>))

resolve_span_name_dropping(span_name, attributes) ==
    IF DOMAIN attributes = {} THEN span_name
    ELSE ResolveLoopDropping(FindAll(span_name), 1, attributes, span_name)

resolve_span_name(span_name, attributes) ==
    IF DOMAIN attributes = {} THEN span_name
    ELSE ResolveLoop(FindAll(span_name), 1, attributes, span_name)

\* ------------------------------------------------------------- json module

\* json.dumps of a flattened dict: a JSON object whose members are JSON
\* strings, numbers (with or without a fraction), true and false.
JsonValue(x) ==
    CASE x.t = "str" -> [j |-> "string", v |-> x.v]
      [] x.t = "int" -> [j |-> "number", v |-> <<x.v, 0>>]
      [] x.t = "float" -> [j |-> "number", v |-> <<x.v, 1>>]
      [] x.t = "bool" -> [j |-> IF x.v THEN "true" ELSE "false", v |-> <<>>]

json_dumps(d) == [k \in DOMAIN d |-> JsonValue(d[k])]

\* json.loads of a JSON object: numbers without a fraction come back as int,
\* the others as float.
PyValue(jv) ==
    CASE jv.j = "string" -> TStr(jv.v)
      [] jv.j = "number" -> IF jv.v[2] = 0 THEN TInt(jv.v[1]) ELSE TFloat(jv.v[1])
      [] jv.j = "true" -> TBool(TRUE)
      [] jv.j = "false" -> TBool(FALSE)

json_loads(text) == [k \in DOMAIN text |-> PyValue(text[k])]

\* --------------------------------------------------- serialize_spans_for_db

ServiceNameKey == <<"service.name">>
Unknown == <<"u", "n", "k", "n", "o", "w", "n">>

OLTPSpan(tid, sid, parent, name, start, end, attrs) ==
    [trace_id |-> tid, span_id |-> sid, parent_span_id |-> parent, name |-> name,
     start_time_unix_nano |-> start, end_time_unix_nano |-> end, kind |-> 1,
     attributes |-> attrs]

Attr(k, val) == [key |-> k, value |-> val]

\* The spans of a payload, resource by resource, scope by scope.
RECURSIVE ScopeSpans(_, _)
ScopeSpans(scope_spans, i) ==
    IF i > Len(scope_spans) THEN <<>>
    ELSE scope_spans[i].spans \o ScopeSpans(scope_spans, i + 1)

RECURSIVE PayloadSpans(_, _)
PayloadSpans(resource_spans, i) ==
    IF i > Len(resource_spans) THEN <<>>
    ELSE ScopeSpans(resource_spans[i].scope_spans, 1) \o PayloadSpans(resource_spans, i + 1)

\* dict.get("service.name", "unknown")
ServiceNameOf(resource_attrs) ==
    IF ServiceNameKey \in DOMAIN resource_attrs THEN resource_attrs[ServiceNameKey]
    ELSE TStr(Unknown)

\* The dict appended for one span (database.py) ...
SpanDict(span, flattened_attrs, resource_attrs) ==
    [trace_id |-> span.trace_id,
     span_id |-> span.span_id,
     parent_span_id |-> span.parent_span_id,
     name |-> resolve_span_name(span.name, flattened_attrs),
     start_time_unix_nano |-> span.start_time_unix_nano,
     end_time_unix_nano |-> span.end_time_unix_nano,
     kind |-> span.kind,
     attributes |-> json_dumps(flattened_attrs),
     service_name |-> ServiceNameOf(resource_attrs),
     resource_attributes |-> json_dumps(resource_attrs)]

\* ... and the tuple appended for one span (apps/server utils.py).
SpanTuple(span, flattened_attrs, resource_attrs) ==
    <<span.trace_id, span.span_id, span.parent_span_id,
      resolve_span_name(span.name, flattened_attrs),
      span.start_time_unix_nano, span.end_time_unix_nano, span.kind,
      json_dumps(flattened_attrs), json_dumps(resource_attrs)>>

\* The loop over the spans of one resource; as_dict selects the record shape.
RECURSIVE SerializeSpans(_, _, _, _, _)
SerializeSpans(spans, i, resource_attrs, as_dict, spans_data) ==
    IF i > Len(spans) THEN Returned(spans_data)
    ELSE LET flat == flatten_attributes(spans[i].attributes)
         IN  IF flat.raised THEN Raised(flat.error)
             ELSE SerializeSpans(spans, i + 1, resource_attrs, as_dict,
                      Append(spans_data,
                             IF as_dict THEN SpanDict(spans[i], flat.value, resource_attrs)
                             ELSE SpanTuple(spans[i], flat.value, resource_attrs)))

RECURSIVE SerializeResources(_, _, _, _)
SerializeResources(resource_spans, i, as_dict, spans_data) ==
    IF i > Len(resource_spans) THEN Returned(spans_data)
    ELSE LET flat == flatten_attributes(resource_spans[i].resource.attributes)
         IN  IF flat.raised THEN Raised(flat.error)
             ELSE LET done == SerializeSpans(ScopeSpans(resource_spans[i].scope_spans, 1),
                                             1, flat.value, as_dict, spans_data)
                  IN  IF done.raised THEN done
                      ELSE SerializeResources(resource_spans, i + 1, as_dict, done.value)

serialize_spans_for_db(trace_request) ==
    SerializeResources(trace_request.resource_spans, 1, TRUE, <<>>)

serialize_spans(trace_request) ==
    SerializeResources(trace_request.resource_spans, 1, FALSE, <<>>)


\* ----------------------------------------------------------- input domains

\* Sequences over S of length at most n.
RECURSIVE SeqsUpTo(_, _)
SeqsUpTo(S, n) ==
    IF n = 0 THEN {<<>>}
    ELSE LET shorter == SeqsUpTo(S, n - 1)
         IN  shorter \cup {Append(q, x) : q \in shorter, x \in S}

KeyA == <<"a">>
KeyB == <<"b">>

\* Attribute values: each field alone, none, several at once, and the empty
\* and false values that are populated but falsy.
AttrValues ==
    { AttrValue(Some(<<"x">>), None, None, None, None),
      AttrValue(Some(<<>>), None, None, None, None),
      AttrValue(None, Some(<<"7">>), None, None, None),
      AttrValue(None, Some(<<"y">>), None, None, None),
      AttrValue(None, None, Some(1), None, None),
      AttrValue(None, None, None, Some(TRUE), None),
      AttrValue(None, None, None, Some(FALSE), None),
      AttrValue(None, None, None, None, None),
      AttrValue(None, None, None, None, Some("{}")),
      AttrValue(Some(<<"x">>), Some(<<"y">>), None, None, None),
      AttrValue(None, Some(<<"7">>), Some(1), Some(TRUE), None),
      AttrValue(None, None, Some(1), Some(FALSE), None) }

AttrLists == SeqsUpTo({Attr(k, val) : k \in {KeyA, KeyB}, val \in AttrValues}, MaxAttrs)

NoCall == [op |-> "none"]
NotRun == [done |-> 0]

NoTasks == <<>>

Idle == pool = "none" /\ store = <<>> /\ call = NoCall /\ tasks = NoTasks /\ held = 0

\* ------------------------------------------- specification: flattening

InitFlatten == input \in AttrLists /\ output = NotRun /\ Idle

Flatten ==
    /\ output.done = 0
    /\ output' = [done |-> 1, result |-> flatten_attributes(input)]
    /\ UNCHANGED <<input, pool, store, call, tasks, held>>

SpecFlatten == InitFlatten /\ [][Flatten]_vars

\* ------------------------------------------- specification: name resolution

NameTokens == { <<"{">>, <<"}">>, <<"a">>, <<"{", "a", "}">>, <<"{", "b", "}">> }

RECURSIVE Concat(_, _)
Concat(parts, i) == IF i > Len(parts) THEN <<>> ELSE parts[i] \o Concat(parts, i + 1)

Names == {Concat(parts, 1) : parts \in SeqsUpTo(NameTokens, MaxTokens)}

MappingValues == { TStr(<<"x">>), TStr(<<"b">>), TStr(<<"{", "b", "}">>), TInt(7) }

Mappings ==
    { [k \in keys |-> TInt(7)] : keys \in {{}} } \cup
    { [k \in {KeyA} |-> x] : x \in MappingValues } \cup
    { [k \in {KeyB} |-> x] : x \in MappingValues } \cup
    { [k \in {KeyA, KeyB} |-> IF k = KeyA THEN x ELSE y] :
          x \in MappingValues, y \in MappingValues }

InitResolve ==
    /\ input \in [name : Names, attributes : Mappings]
    /\ output = NotRun
    /\ Idle

Resolve ==
    /\ output.done = 0
    /\ output' = [done |-> 1,
                  first |-> resolve_span_name(input.name, input.attributes)]
    /\ UNCHANGED <<input, pool, store, call, tasks, held>>

ResolveAgain ==
    /\ output.done = 1
    /\ output' = [done |-> 2, first |-> output.first,
                  second |-> resolve_span_name(output.first, input.attributes)]
    /\ UNCHANGED <<input, pool, store, call, tasks, held>>

SpecResolve == InitResolve /\ [][Resolve \/ ResolveAgain]_vars


\* ------------------------------------------------- claims on flattening

\* The last value given for key k in an attribute list.
RECURSIVE LastValue(_, _, _)
LastValue(attributes, i, k) ==
    IF attributes[i].key = k THEN attributes[i].value ELSE LastValue(attributes, i - 1, k)

AttrKeys(attributes) == {attributes[i].key : i \in 1..Len(attributes)}

\* x is the scalar the documented order picks for val: the string, else the
\* integer, else the float, else the boolean, else the rendering of val.
IsDocumentedScalar(val, x) ==
    IF val.stringValue # None THEN x = TStr(val.stringValue[1])
    ELSE IF val.intValue # None THEN
        x.t = "int" /\ (IsNumeral(val.intValue[1]) => Digits(x.v) = val.intValue[1])
    ELSE IF val.doubleValue # None THEN x = TFloat(val.doubleValue[1])
    ELSE IF val.boolValue # None THEN x = TBool(val.boolValue[1])
    ELSE x = TStr(ValueRepr(val))

\* C6: flatten_attributes is total and raises no error: for every attribute
\* list it returns one scalar per key, chosen in the order string, integer,
\* float, boolean, then the string rendering of the whole value.
FlattenIsTotal ==
    output.done = 1 =>
        /\ ~output.result.raised
        /\ DOMAIN output.result.value = AttrKeys(input)
        /\ \A k \in AttrKeys(input) :
               IsDocumentedScalar(LastValue(input, Len(input), k), output.result.value[k])

\* Whenever flatten_attributes returns, its result follows the documented
\* order; it raises exactly when an integer field that is reached does not
\* parse.
FlattenOrderWhenReturned ==
    output.done = 1 =>
        /\ output.result.raised <=>
               \E i \in 1..Len(input) :
                   /\ input[i].value.stringValue = None
                   /\ input[i].value.intValue # None
                   /\ ~IsNumeral(input[i].value.intValue[1])
        /\ ~output.result.raised =>
               /\ DOMAIN output.result.value = AttrKeys(input)
               /\ \A k \in AttrKeys(input) :
                      IsDocumentedScalar(LastValue(input, Len(input), k),
                                         output.result.value[k])

\* ---------------------------------------------- claims on name resolution

\* The name with each placeholder of the input replaced by the string form of
\* its attribute, when it has one, in one pass over the input.
RECURSIVE SubstitutedFrom(_, _, _)
SubstitutedFrom(s, i, attributes) ==
    IF i > Len(s) THEN <<>>
    ELSE IF MatchesAt(s, i)
         THEN LET var == SubSeq(s, i + 1, MatchEnd(s, i) - 1)
              IN  (IF var \in DOMAIN attributes THEN PyStr(attributes[var])
                   ELSE SubSeq(s, i, MatchEnd(s, i)))
                  \o SubstitutedFrom(s, MatchEnd(s, i) + 1, attributes)
         ELSE <<s[i]>> \o SubstitutedFrom(s, i + 1, attributes)

Substituted(s, attributes) == SubstitutedFrom(s, 1, attributes)

IsBrace(c) == c \in {"{", "}"}
BraceFree(s) == \A i \in 1..Len(s) : ~IsBrace(s[i])
ValuesBraceFree(attributes) == \A k \in DOMAIN attributes : BraceFree(PyStr(attributes[k]))

\* Every brace of s opens or closes a placeholder of s.
RECURSIVE NoStrayBraceFrom(_, _)
NoStrayBraceFrom(s, i) ==
    IF i > Len(s) THEN TRUE
    ELSE IF MatchesAt(s, i) THEN NoStrayBraceFrom(s, MatchEnd(s, i) + 1)
    ELSE ~IsBrace(s[i]) /\ NoStrayBraceFrom(s, i + 1)

NoStrayBrace(s) == NoStrayBraceFrom(s, 1)

\* C7 as stated: for every name and mapping, also one whose values contain
\* {identifier} text, resolve_span_name replaces each placeholder of the input
\* name that has an attribute and keeps the others verbatim.
ResolveSubstitutesEveryInput ==
    output.done >= 1 => output.first = Substituted(input.name, input.attributes)

\* C7 amended: the same, for names whose braces all belong to placeholders and
\* mappings whose values' string forms contain no brace.
ResolveSubstitutesPlainInput ==
    (output.done >= 1 /\ NoStrayBrace(input.name) /\ ValuesBraceFree(input.attributes))
        => output.first = Substituted(input.name, input.attributes)

\* A resolved name with one placeholder replaced and another kept verbatim.
ResolveSubstitutesWitness ==
    /\ output.done >= 1
    /\ input.name = <<"{", "a", "}", "a", "{", "b", "}">>
    /\ DOMAIN input.attributes = {KeyA}
    /\ input.attributes[KeyA] = TInt(7)
    /\ output.first = <<"7", "a", "{", "b", "}">>

\* The placeholders of s whose identifier is a key of the mapping.
HasKeyedPlaceholder(s, attributes) ==
    \E i \in 1..Len(FindAll(s)) : FindAll(s)[i] \in DOMAIN attributes

\* C8 as stated: resolving a resolved name again changes nothing, for every
\* name and mapping.
ResolveIdempotent ==
    output.done = 2 => output.second = output.first

\* C8 amended: resolving a resolved name again changes nothing when the
\* resolved name holds no placeholder that is a key of the mapping.
ResolveIdempotentWhenSettled ==
    (output.done = 2 /\ ~HasKeyedPlaceholder(output.first, input.attributes))
        => output.second = output.first

\* A name resolved twice, with a replaced and a kept placeholder.
ResolveIdempotentWitness ==
    /\ output.done = 2
    /\ input.name = <<"{", "a", "}", "{", "b", "}">>
    /\ DOMAIN input.attributes = {KeyA}
    /\ input.attributes[KeyA] = TStr(<<"x">>)
    /\ output.first = <<"x", "{", "b", "}">>
    /\ output.second = output.first


\* ------------------------------------------- specification: serialization

Resource(attrs, scope_spans) ==
    [resource |-> [attributes |-> attrs], scope_spans |-> scope_spans]
Scope(spans) == [scope |-> "scope", spans |-> spans]
TraceRequest(resource_spans) == [resource_spans |-> resource_spans]

T1 == <<"t", "1">>
T2 == <<"t", "2">>
Checkout == <<"c", "o">>

ServiceAttr(name) == Attr(ServiceNameKey, AttrValue(Some(name), None, None, None, None))
StrAttr(k, s) == Attr(k, AttrValue(Some(s), None, None, None, None))
IntAttr(k, s) == Attr(k, AttrValue(None, Some(s), None, None, None))

\* A root span, a child span with a name template, and a span whose integer
\* attribute does not parse.
PlainSpans ==
    { OLTPSpan(T1, <<"a">>, None, <<"P">>, 0, 3, <<>>),
      OLTPSpan(T1, <<"b">>, Some(<<"a">>), <<"{", "k", "}">>, 1, 2,
               <<StrAttr(<<"k">>, <<"d", "b">>)>>),
      OLTPSpan(T2, <<"c">>, Some(<<>>), <<"c">>, 2, 2, <<IntAttr(<<"k">>, <<"y">>)>>) }

SpanLists == SeqsUpTo(PlainSpans, MaxSpans)

\* One or two resources; the first with one or two scopes.
Payloads ==
    LET first == { Resource(attrs, scopes) :
                       attrs \in {<<>>, <<ServiceAttr(Checkout)>>},
                       scopes \in {<<Scope(l)>> : l \in SpanLists} \cup
                                  {<<Scope(l), Scope(m)>> :
                                       l \in SpanLists, m \in SeqsUpTo(PlainSpans, 1)} }
        second == Resource(<<>>, <<Scope(<<OLTPSpan(T2, <<"d">>, None, <<"D">>, 1, 1, <<>>)>>)>>)
    IN  {TraceRequest(<<>>)} \cup
        {TraceRequest(<<r>>) : r \in first} \cup
        {TraceRequest(<<r, second>>) : r \in first}

InitSerialize == input \in Payloads /\ output = NotRun /\ Idle

SerializeForDb ==
    /\ output.done = 0
    /\ output' = [done |-> 1, dicts |-> TRUE, result |-> serialize_spans_for_db(input)]
    /\ UNCHANGED <<input, pool, store, call, tasks, held>>

Serialize ==
    /\ output.done = 0
    /\ output' = [done |-> 1, dicts |-> FALSE, result |-> serialize_spans(input)]
    /\ UNCHANGED <<input, pool, store, call, tasks, held>>

SpecSerialize == InitSerialize /\ [][SerializeForDb \/ Serialize]_vars

\* The trace, span and parent identifiers a flat record carries.
RecordIds(rec, dicts) ==
    IF dicts THEN <<rec.trace_id, rec.span_id, rec.parent_span_id>>
    ELSE <<rec[1], rec[2], rec[3]>>

SpanIds(span) == <<span.trace_id, span.span_id, span.parent_span_id>>

\* C5: for any ingestion payload, serialize_spans_for_db and serialize_spans
\* emit exactly one flat record per span, in total as many records as the
\* payload has spans, each carrying its span's trace, span and parent ids.
SerializeOneRecordPerSpan ==
    output.done = 1 =>
        LET spans == PayloadSpans(input.resource_spans, 1)
        IN  /\ ~output.result.raised
            /\ Len(output.result.value) = Len(spans)
            /\ \A i \in 1..Len(spans) :
                   RecordIds(output.result.value[i], output.dicts) = SpanIds(spans[i])

\* Whenever the transform returns, it has emitted one record per span with the
\* identifiers unchanged; it raises only when flatten_attributes does.
SerializeOneRecordPerSpanWhenReturned ==
    (output.done = 1 /\ ~output.result.raised) =>
        LET spans == PayloadSpans(input.resource_spans, 1)
        IN  /\ Len(output.result.value) = Len(spans)
            /\ \A i \in 1..Len(spans) :
                   RecordIds(output.result.value[i], output.dicts) = SpanIds(spans[i])


\* ------------------------------------------------------ DatabaseResponse

success_response(rows) == [success |-> TRUE, rows |-> rows, count |-> Len(rows), error |-> None]
error_response(error) == [success |-> FALSE, rows |-> <<>>, count |-> 0, error |-> Some(error)]

\* to_dict(**extra_fields): the error key is set only for a truthy error; a
\* dict key that is not set reads None here.
to_dict(response, extra_fields) ==
    [success |-> response.success, rows |-> response.rows, count |-> response.count,
     error |-> IF response.error # None /\ response.error[1] # "" THEN response.error
               ELSE None,
     extra |-> extra_fields]

\* ----------------------------------------------------- the store and pool

Columns == {"trace_id", "span_id", "parent_span_id", "name", "start_time_unix_nano",
            "end_time_unix_nano", "kind", "attributes", "service_name",
            "resource_attributes"}

\* What the store or the pool does to one operation: nothing, a failure of
\* pool.acquire(), or a failure of the statement, with the exception's message
\* (asyncio.TimeoutError carries none).
Faults ==
    { [at |-> "none", msg |-> ""],
      [at |-> "acquire", msg |-> "boom"],
      [at |-> "statement", msg |-> "boom"],
      [at |-> "statement", msg |-> ""] }

\* async with pool.acquire(): the exception it raises, if any.
AcquireError(pool_now, fault) ==
    IF pool_now = "none" THEN Some("'NoneType' object has no attribute 'acquire'")
    ELSE IF pool_now = "closed" THEN Some("pool is closed")
    ELSE IF fault.at = "acquire" THEN Some(fault.msg)
    ELSE None

\* The row COPY writes for one record; id is the serial key.
RowOf(rec, id) ==
    [id |-> id, trace_id |-> rec.trace_id, span_id |-> rec.span_id,
     parent_span_id |-> rec.parent_span_id, name |-> rec.name,
     start_time_unix_nano |-> rec.start_time_unix_nano,
     end_time_unix_nano |-> rec.end_time_unix_nano, kind |-> rec.kind,
     attributes |-> Some(rec.attributes), service_name |-> Some(rec.service_name.v),
     resource_attributes |-> Some(rec.resource_attributes)]

RECURSIVE RowsOf(_, _, _)
RowsOf(spans_data, i, first_id) ==
    IF i > Len(spans_data) THEN <<>>
    ELSE <<RowOf(spans_data[i], first_id)>> \o RowsOf(spans_data, i + 1, first_id + 1)

\* conn.copy_records_to_table: one COPY, all rows or none.
CopyError(spans_data, fault) ==
    IF fault.at = "statement" THEN Some(fault.msg)
    ELSE IF \E i \in 1..Len(spans_data) : spans_data[i].service_name.t # "str"
         THEN Some("invalid input for query argument")
    ELSE None

\* ------------------------------------------------------ insert_spans_batch

\* insert_spans_batch that replaces the rows of the table by the new ones.
insert_spans_batch_replacing(spans_data, pool_now, rows, fault) ==
    IF spans_data = <<>> THEN [raised |-> FALSE, error |-> "", rows |-> rows]
    ELSE IF \E i \in 1..Len(spans_data) : ~(Columns \subseteq DOMAIN spans_data[i])
         THEN [raised |-> TRUE, error |-> "KeyError", rows |-> rows]
    ELSE IF AcquireError(pool_now, fault) # None \/ CopyError(spans_data, fault) # None
         THEN [raised |-> FALSE, error |-> "", rows |-> rows]
    ELSE [raised |-> FALSE, error |-> "", rows |-> RowsOf(spans_data, 1, 1)]

\* The outcome of insert_spans_batch and the rows of the store after it.  The
\* records are built before the try block, so a record without one of the
\* columns raises KeyError to the caller; every error of the store is caught.
insert_spans_batch(spans_data, pool_now, rows, fault) ==
    IF spans_data = <<>> THEN [raised |-> FALSE, error |-> "", rows |-> rows]
    ELSE IF \E i \in 1..Len(spans_data) : ~(Columns \subseteq DOMAIN spans_data[i])
         THEN [raised |-> TRUE, error |-> "KeyError", rows |-> rows]
    ELSE IF AcquireError(pool_now, fault) # None \/ CopyError(spans_data, fault) # None
         THEN [raised |-> FALSE, error |-> "", rows |-> rows]
    ELSE [raised |-> FALSE, error |-> "",
          rows |-> rows \o RowsOf(spans_data, 1, Len(rows) + 1)]


\* ---------------------------------------------------- SQL over the spans

\* Python truthiness of an optional string.
Truthy(s) == s # None /\ s[1] # <<>>

\* The characters of the names and filters, in code point order.
Alphabet == <<"%", "0", "1", "2", "3", "4", "5", "6", "7", "8", "9",
              "D", "P", "_", "a", "b", "c", "d", "k", "n", "o", "p", "t", "u", "w", "x", "y",
              "{", "}">>
Ord(c) == CHOOSE i \in 1..Len(Alphabet) : Alphabet[i] = c
Lower(c) == IF c = "D" THEN "d" ELSE IF c = "P" THEN "p" ELSE c

\* a < b as the store compares text.
RECURSIVE StrLess(_, _)
StrLess(a, b) ==
    IF Len(b) = 0 THEN FALSE
    ELSE IF Len(a) = 0 THEN TRUE
    ELSE IF a[1] = b[1] THEN StrLess(Tail(a), Tail(b))
    ELSE Ord(a[1]) < Ord(b[1])

\* MAX over a set of text values: NULL for the empty set.
MaxStr(S) == IF S = {} THEN None
             ELSE Some(CHOOSE m \in S : \A x \in S : x = m \/ StrLess(x, m))

MinOf(S) == CHOOSE m \in S : \A x \in S : m <= x
MaxOf(S) == CHOOSE m \in S : \A x \in S : m >= x

\* text ILIKE pattern: % is any run, _ any one character, letters match in
\* either case.
RECURSIVE ILikeFrom(_, _, _, _)
ILikeFrom(text, i, pattern, j) ==
    IF j > Len(pattern) THEN i > Len(text)
    ELSE IF pattern[j] = "%"
         THEN ILikeFrom(text, i, pattern, j + 1)
              \/ (i <= Len(text) /\ ILikeFrom(text, i + 1, pattern, j))
    ELSE /\ i <= Len(text)
         /\ (pattern[j] = "_" \/ Lower(text[i]) = Lower(pattern[j]))
         /\ ILikeFrom(text, i + 1, pattern, j + 1)

ILike(text, pattern) == ILikeFrom(text, 1, pattern, 1)

TDatetime(n) == [t |-> "datetime", v |-> n]

\* datetime.fromisoformat and datetime.isoformat: a timestamp is written as
\* the numeral of its milliseconds; any other text raises ValueError.
IsIsoFormat(s) == IsNumeral(s)
fromisoformat(s) == DigitsValue(s)
isoformat(n) == Digits(n)

NoFilters == [where_conditions |-> <<>>, params |-> <<>>, param_index |-> 1]

Condition(column, op, index) == [column |-> column, op |-> op, param |-> index]
Pop(q) == SubSeq(q, 1, Len(q) - 1)

AddFilter(f, column, op, value) ==
    [where_conditions |-> Append(f.where_conditions, Condition(column, op, f.param_index)),
     params |-> Append(f.params, value),
     param_index |-> f.param_index + 1]

\* A time filter whose predicate stays when the value does not parse.
AddTimeFilterKeeping(f, column, op, value) ==
    LET appended == Append(f.where_conditions, Condition(column, op, f.param_index))
    IN  IF IsIsoFormat(value)
        THEN [where_conditions |-> appended,
              params |-> Append(f.params, TDatetime(fromisoformat(value))),
              param_index |-> f.param_index + 1]
        ELSE [where_conditions |-> appended, params |-> f.params,
              param_index |-> f.param_index]

\* A time filter: the predicate is appended first and popped again when the
\* value does not parse.
AddTimeFilter(f, column, op, value) ==
    LET appended == Append(f.where_conditions, Condition(column, op, f.param_index))
    IN  IF IsIsoFormat(value)
        THEN [where_conditions |-> appended,
              params |-> Append(f.params, TDatetime(fromisoformat(value))),
              param_index |-> f.param_index + 1]
        ELSE [where_conditions |-> Pop(appended), params |-> f.params,
              param_index |-> f.param_index]

\* The WHERE predicates and bound parameters of get_traces_paginated.
BuildFilters(service, operation, start_time, end_time) ==
    LET f1 == IF Truthy(service)
              THEN AddFilter(NoFilters, "service_name", "=", TStr(service[1]))
              ELSE NoFilters
        f2 == IF Truthy(operation)
              THEN AddFilter(f1, "name", "ILIKE", TStr(<<"%">> \o operation[1] \o <<"%">>))
              ELSE f1
        f3 == IF Truthy(start_time)
              THEN AddTimeFilter(f2, "start_time_unix_nano", ">=", start_time[1])
              ELSE f2
    IN  IF Truthy(end_time)
        THEN AddTimeFilter(f3, "end_time_unix_nano", "<=", end_time[1])
        ELSE f3

\* The two statements as they are executed: the predicates, the parameters of
\* traces_query with the placeholders of OFFSET and LIMIT, and the parameters
\* of count_query, params[:-2].
BuiltQuery(a) ==
    LET f == BuildFilters(a.service, a.operation, a.start_time, a.end_time)
        params == f.params \o <<TInt(a.offset), TInt(a.limit)>>
    IN  [where_conditions |-> f.where_conditions,
         params |-> params,
         offset_param |-> f.param_index,
         limit_param |-> f.param_index + 1,
         count_params |-> SubSeq(params, 1, Len(params) - 2)]

\* One predicate of the WHERE clause on one row; a NULL column matches nothing.
ConditionHolds(row, c, params) ==
    CASE c.op = "=" -> row.service_name # None /\ row.service_name[1] = params[c.param].v
      [] c.op = "ILIKE" -> ILike(row.name, params[c.param].v)
      [] c.op = ">=" -> row.start_time_unix_nano >= params[c.param].v
      [] c.op = "<=" -> row.end_time_unix_nano <= params[c.param].v

RowMatches(row, where_conditions, params) ==
    \A i \in 1..Len(where_conditions) : ConditionHolds(row, where_conditions[i], params)

\* FROM spans WHERE ...: the indexes of the rows the WHERE clause keeps.
Matching(rows, where_conditions, params) ==
    {i \in 1..Len(rows) : RowMatches(rows[i], where_conditions, params)}

IsRootRow(row) == row.parent_span_id = None \/ row.parent_span_id[1] = <<>>

\* One row of traces_query: the aggregates over the kept rows of one trace.
TraceAggregate(rows, kept, trace_id) ==
    LET group == {i \in kept : rows[i].trace_id = trace_id}
        roots == {i \in group : IsRootRow(rows[i])}
    IN  [trace_id |-> trace_id,
         span_count |-> Cardinality(group),
         trace_start_time |-> MinOf({rows[i].start_time_unix_nano : i \in group}),
         trace_end_time |-> MaxOf({rows[i].end_time_unix_nano : i \in group}),
         duration_ms |-> MaxOf({rows[i].end_time_unix_nano : i \in group})
                         - MinOf({rows[i].start_time_unix_nano : i \in group}),
         root_operation |-> MaxStr({rows[i].name : i \in roots}),
         root_service |-> MaxStr({rows[i].service_name[1] :
                                     i \in {r \in roots : rows[r].service_name # None}}),
         any_operation |-> MaxStr({rows[i].name : i \in group}),
         any_service |-> MaxStr({rows[i].service_name[1] :
                                    i \in {r \in group : rows[r].service_name # None}})]

\* COUNT(DISTINCT trace_id) and GROUP BY trace_id.
KeptTraceIds(rows, kept) == {rows[i].trace_id : i \in kept}

\* ORDER BY MIN(start_time_unix_nano) DESC: every order of the groups the
\* store may return; groups with equal keys come in any order.
TraceOrders(rows, kept) ==
    LET ids == KeptTraceIds(rows, kept)
        n == Cardinality(ids)
        key(t) == TraceAggregate(rows, kept, t).trace_start_time
    IN  {o \in [1..n -> ids] :
            /\ \A i, j \in 1..n : i # j => o[i] # o[j]
            /\ \A i, j \in 1..n : i < j => key(o[i]) >= key(o[j])}

\* A page without its LIMIT.
PageUnlimited(order, offset, limit) == SubSeq(order, offset + 1, Len(order))

\* A page that starts one group too far.
PageSkipping(order, offset, limit) ==
    SubSeq(order, offset + 2, IF offset + limit < Len(order) THEN offset + limit ELSE Len(order))

\* OFFSET offset LIMIT limit
Page(order, offset, limit) ==
    SubSeq(order, offset + 1, IF offset + limit < Len(order) THEN offset + limit ELSE Len(order))

UnknownOperation ==
    <<"u", "n", "k", "n", "o", "w", "n", "-", "o", "p", "e", "r", "a", "t", "i", "o", "n">>
UnknownService ==
    <<"u", "n", "k", "n", "o", "w", "n", "-", "s", "e", "r", "v", "i", "c", "e">>

\* a or b or c over optional text: the first that is neither NULL nor empty.
FirstTruthy(a, b, c) == IF Truthy(a) THEN a[1] ELSE IF Truthy(b) THEN b[1] ELSE c

\* The dict appended to trace_list for one row of traces_query.
TraceSummary(trace) ==
    [trace_id |-> trace.trace_id,
     span_count |-> trace.span_count,
     start_time |-> isoformat(trace.trace_start_time),
     end_time |-> isoformat(trace.trace_end_time),
     duration_ms |-> IF trace.duration_ms # 0 THEN trace.duration_ms ELSE 0,
     name |-> FirstTruthy(trace.root_operation, trace.any_operation, UnknownOperation),
     service_name |-> FirstTruthy(trace.root_service, trace.any_service, UnknownService)]

\* The pagination metadata with has_next off by one.
PaginationInclusive(offset, limit, total_traces) ==
    [offset |-> offset, limit |-> limit, total |-> total_traces,
     has_next |-> offset + limit <= total_traces, has_prev |-> offset > 0]

\* The pagination metadata of a successful response.
Pagination(offset, limit, total_traces) ==
    [offset |-> offset, limit |-> limit, total |-> total_traces,
     has_next |-> offset + limit < total_traces, has_prev |-> offset > 0]

\* The pagination metadata of an error response.
ErrorPagination(offset, limit) ==
    [offset |-> offset, limit |-> limit, total |-> 0, has_next |-> FALSE, has_prev |-> FALSE]

\* What a read operation does with an uninitialised pool, before its try block.
PoolNotInitialized == Raised("RuntimeError")

\* The exception raised inside the try block of a read operation, if any.
ReadError(pool_now, fault) ==
    IF AcquireError(pool_now, fault) # None THEN AcquireError(pool_now, fault)
    ELSE IF fault.at = "statement" THEN Some(fault.msg)
    ELSE None

\* A try block whose except clause lets the exception through.
TryExceptReraising(error, handled, completed) ==
    IF error # None THEN Raised("Exception") ELSE Returned(completed)

\* try: ... except Exception as e: the handler's value when the block raised,
\* the block's value otherwise.
TryExcept(error, handled, completed) ==
    IF error # None THEN Returned(handled) ELSE Returned(completed)

\* get_traces_paginated when the table holds rows as traces_query runs and
\* rows_at_count as count_query runs after it; order is the order in which
\* the store returns the groups.
get_traces_paginated_between(pool_now, rows, rows_at_count, a, fault, order) ==
    IF pool_now = "none" THEN PoolNotInitialized
    ELSE TryExcept(ReadError(pool_now, fault),
             to_dict(error_response(ReadError(pool_now, fault)[1]),
                     [pagination |-> ErrorPagination(a.offset, a.limit)]),
             LET f == BuildFilters(a.service, a.operation, a.start_time, a.end_time)
                 params == f.params \o <<TInt(a.offset), TInt(a.limit)>>
                 kept == Matching(rows, f.where_conditions, params)
                 traces == Page(order, params[f.param_index].v, params[f.param_index + 1].v)
                 total_traces ==
                     Cardinality(KeptTraceIds(rows_at_count,
                         Matching(rows_at_count, f.where_conditions, f.params)))
                 trace_list == [i \in 1..Len(traces) |->
                                   TraceSummary(TraceAggregate(rows, kept, traces[i]))]
             IN  to_dict(success_response(trace_list),
                         [pagination |-> Pagination(a.offset, a.limit, total_traces)]))

\* get_traces_paginated with no write between its two statements; order is
\* the order in which the store returns the groups.
get_traces_paginated(pool_now, rows, a, fault, order) ==
    get_traces_paginated_between(pool_now, rows, rows, a, fault, order)

\* --------------------------------------------------------- get_trace_detail

DurationKey == <<"duration_ms">>

\* float(x) of a JSON scalar: the number, or the ValueError of float() on
\* text that is no numeral.
PyFloat(x) ==
    CASE x.t = "int" -> Returned(x.v)
      [] x.t = "float" -> Returned(x.v)
      [] x.t = "bool" -> Returned(IF x.v THEN 1 ELSE 0)
      [] x.t = "str" -> IF IsNumeral(x.v) THEN Returned(DigitsValue(x.v))
                        ELSE Raised("ValueError")

\* The duration of one span with the attribute taken whenever it is present.
SpanDurationPreferAttribute(span) ==
    LET calculated_duration == span.end_time_unix_nano - span.start_time_unix_nano
    IN  IF span.attributes # None
        THEN LET attributes_dict == json_loads(span.attributes[1])
             IN  IF DurationKey \in DOMAIN attributes_dict
                    /\ ~PyFloat(attributes_dict[DurationKey]).raised
                 THEN PyFloat(attributes_dict[DurationKey]).value
                 ELSE calculated_duration
        ELSE calculated_duration

\* The duration_ms of one span: end - start, and when that is 0 the span's
\* duration_ms attribute if it is present and converts to a float.
SpanDuration(span) ==
    LET calculated_duration == span.end_time_unix_nano - span.start_time_unix_nano
    IN  IF calculated_duration = 0 /\ span.attributes # None
        THEN LET attributes_dict == json_loads(span.attributes[1])
             IN  IF DurationKey \in DOMAIN attributes_dict
                    /\ ~PyFloat(attributes_dict[DurationKey]).raised
                 THEN PyFloat(attributes_dict[DurationKey]).value
                 ELSE calculated_duration
        ELSE calculated_duration

\* The dict appended to span_list for one row.
SpanData(span) ==
    [id |-> Digits(span.id),
     trace_id |-> span.trace_id,
     span_id |-> span.span_id,
     parent_span_id |-> span.parent_span_id,
     name |-> span.name,
     start_time |-> isoformat(span.start_time_unix_nano),
     end_time |-> isoformat(span.end_time_unix_nano),
     duration_ms |-> SpanDuration(span),
     kind |-> span.kind,
     attributes |-> IF span.attributes # None THEN json_loads(span.attributes[1])
                    ELSE EmptyDict,
     service_name |-> IF Truthy(span.service_name) THEN span.service_name[1]
                      ELSE UnknownService]

\* The rows of the trace in any order, as without the ORDER BY.
DetailOrdersUnsorted(rows, trace_id) ==
    LET idx == {i \in 1..Len(rows) : rows[i].trace_id = trace_id}
        n == Cardinality(idx)
    IN  {o \in [1..n -> idx] : \A i, j \in 1..n : i # j => o[i] # o[j]}

\* WHERE trace_id = $1 ORDER BY start_time_unix_nano ASC: every order of the
\* trace's rows the store may return.
DetailOrders(rows, trace_id) ==
    LET idx == {i \in 1..Len(rows) : rows[i].trace_id = trace_id}
        n == Cardinality(idx)
    IN  {o \in [1..n -> idx] :
            /\ \A i, j \in 1..n : i # j => o[i] # o[j]
            /\ \A i, j \in 1..n : i < j =>
                   rows[o[i]].start_time_unix_nano <= rows[o[j]].start_time_unix_nano}

\* The trace duration taken as latest end - earliest start of the spans.
ExtentOfSpans(span_list, i) ==
    MaxOf({DigitsValue(span_list[k].end_time) : k \in i..Len(span_list)})
        - MinOf({DigitsValue(span_list[k].start_time) : k \in i..Len(span_list)})

RECURSIVE SumDurations(_, _)
SumDurations(span_list, i) ==
    IF i > Len(span_list) THEN 0
    ELSE span_list[i].duration_ms + SumDurations(span_list, i + 1)

\* next(span for span in span_list if not span.get("parent_span_id")), with
\* span_list[0] as the default.
RootSpan(span_list) ==
    IF \E i \in 1..Len(span_list) : ~Truthy(span_list[i].parent_span_id)
    THEN span_list[MinOf({i \in 1..Len(span_list) : ~Truthy(span_list[i].parent_span_id)})]
    ELSE span_list[1]

\* get_trace_detail; order is the order in which the store returns the rows.
get_trace_detail(pool_now, rows, trace_id, fault, order) ==
    IF pool_now = "none" THEN PoolNotInitialized
    ELSE TryExcept(ReadError(pool_now, fault),
             to_dict(error_response(ReadError(pool_now, fault)[1]), [trace_id |-> trace_id]),
             IF Len(order) = 0
             THEN to_dict(success_response(<<>>), [trace_id |-> trace_id])
             ELSE LET span_list == [i \in 1..Len(order) |-> SpanData(rows[order[i]])]
                      root_span == RootSpan(span_list)
                  IN  to_dict(success_response(span_list),
                          [trace_id |-> trace_id,
                           start_time |-> span_list[1].start_time,
                           end_time |-> span_list[Len(span_list)].end_time,
                           duration_ms |-> SumDurations(span_list, 1),
                           service_name |-> root_span.service_name,
                           operation_name |-> root_span.name]))

\* ----------------------------------------------------- execute_custom_query

\* The statements the ad-hoc bridge is given: one that selects every span, one
\* the store rejects and one that deletes every span.
Queries == {"SELECT * FROM spans", "SELEC", "DELETE FROM spans"}

\* The rows conn.fetch(query) returns, and the rows of the table after it.
Fetched(rows, query) == IF query = "SELECT * FROM spans" THEN rows ELSE <<>>
TableAfter(rows, query, error) ==
    IF error = None /\ query = "DELETE FROM spans" THEN <<>> ELSE rows

\* One result row as a dict: values with an isoformat method are rendered,
\* the others are passed through.
QueryRow(row) ==
    [row EXCEPT !.start_time_unix_nano = isoformat(row.start_time_unix_nano),
                !.end_time_unix_nano = isoformat(row.end_time_unix_nano)]

\* conn.fetch(query): the error of the store, if any.
QueryError(pool_now, query, fault) ==
    IF ReadError(pool_now, fault) # None THEN ReadError(pool_now, fault)
    ELSE IF query = "SELEC" THEN Some("syntax error at or near SELEC")
    ELSE None

execute_custom_query(pool_now, rows, query, fault) ==
    IF pool_now = "none" THEN PoolNotInitialized
    ELSE TryExcept(QueryError(pool_now, query, fault),
             to_dict(error_response(QueryError(pool_now, query, fault)[1]), <<>>),
             to_dict(success_response([i \in 1..Len(Fetched(rows, query)) |->
                                          QueryRow(Fetched(rows, query)[i])]), <<>>))

\* ------------------------------------------------------------- get_services

\* SELECT DISTINCT service_name ... ORDER BY service_name
RECURSIVE SortedText(_)
SortedText(S) ==
    IF S = {} THEN <<>>
    ELSE LET least == CHOOSE m \in S : \A x \in S : x = m \/ StrLess(m, x)
         IN  <<least>> \o SortedText(S \ {least})

get_services(pool_now, rows, fault) ==
    IF pool_now = "none" THEN PoolNotInitialized
    ELSE IF ReadError(pool_now, fault) # None
    THEN Returned([success |-> FALSE, error |-> ReadError(pool_now, fault),
                   services |-> <<>>, count |-> 0])
    ELSE LET services == SortedText({rows[i].service_name[1] :
                             i \in {r \in 1..Len(rows) : rows[r].service_name # None}})
         IN  Returned([success |-> TRUE, error |-> None, services |-> services,
                       count |-> Len(services)])


\* --------------------------------------------- specification: the backend

Api == <<"a", "p">>

SA == OLTPSpan(T1, <<"a">>, None, <<"P">>, 0, 3, <<>>)
SB == OLTPSpan(T1, <<"b">>, Some(<<"a">>), <<"{", "k", "}">>, 1, 2,
               <<StrAttr(<<"k">>, <<"d", "b">>), IntAttr(DurationKey, <<"4", "2">>)>>)
SC == OLTPSpan(T2, <<"c">>, Some(<<>>), <<>>, 2, 2, <<IntAttr(DurationKey, <<"4", "2">>)>>)
SD == OLTPSpan(T2, <<"d">>, Some(<<"c">>), <<"D", "b">>, 2, 2,
               <<StrAttr(DurationKey, <<"a", "b">>)>>)
SE == OLTPSpan(T1, <<"e">>, Some(<<"a">>), <<"x">>, 1, 1,
               <<StrAttr(DurationKey, <<"4", "2">>)>>)
SBad == OLTPSpan(T2, <<"y">>, None, <<"y">>, 0, 0, <<IntAttr(<<"k">>, <<"y">>)>>)

OneScope(attrs, spans) == TraceRequest(<<Resource(attrs, <<Scope(spans)>>)>>)

\* Requests of one resource and one scope: each span alone, a root with its
\* child, and the empty request; and a request of two resources with a trace
\* each.
ServicePayloads ==
    { TraceRequest(<<>>),
      OneScope(<<ServiceAttr(Checkout)>>, <<SA>>),
      OneScope(<<ServiceAttr(Checkout)>>, <<SB>>),
      OneScope(<<>>, <<SC>>),
      OneScope(<<>>, <<SD>>),
      OneScope(<<ServiceAttr(Api)>>, <<SE>>),
      OneScope(<<>>, <<SBad>>),
      OneScope(<<ServiceAttr(Checkout)>>, <<SA, SB>>),
      OneScope(<<>>, <<SC, SD>>),
      OneScope(<<ServiceAttr(Checkout)>>, <<SA, SBad>>),
      TraceRequest(<<Resource(<<ServiceAttr(Checkout)>>, <<Scope(<<SA, SB>>)>>),
                     Resource(<<>>, <<Scope(<<SC>>)>>)>>) }

\* generate_mock_span of the load test: no service_name and no
\* resource_attributes key.
MockSpan ==
    [trace_id |-> T1, span_id |-> <<"m">>, parent_span_id |-> None,
     name |-> <<"t", "0">>, start_time_unix_nano |-> 1, end_time_unix_nano |-> 1,
     kind |-> 1,
     attributes |-> json_dumps([k \in {DurationKey} |-> TInt(7)]),
     events |-> <<>>]

ListArgs ==
    [offset : {0, 1}, limit : {1, 2},
     service : {None, Some(Checkout)},
     operation : {None, Some(<<"D">>)},
     start_time : {None, Some(<<"b">>), Some(<<"1">>)},
     end_time : {None, Some(<<"2">>)}]

TraceIdArgs == {T1, T2, <<"t", "3">>}

PartialSuccess == [partialSuccess |-> <<>>]

Init ==
    /\ input = <<>>
    /\ output = NotRun
    /\ pool = "none"
    /\ store = <<>>
    /\ call = NoCall
    /\ tasks = NoTasks
    /\ held = 0

\* init_db_pool
InitDbPool ==
    /\ call.op = "none"
    /\ pool' = "open"
    /\ call' = [op |-> "init_db_pool"]
    /\ UNCHANGED <<input, output, store, tasks, held>>

\* close_db_pool
CloseDbPool ==
    /\ call.op = "none"
    /\ pool' = IF pool = "none" THEN "none" ELSE "closed"
    /\ call' = [op |-> "close_db_pool"]
    /\ UNCHANGED <<input, output, store, tasks, held>>

\* POST /v1/traces
ReceiveTraces ==
    /\ call.op = "none"
    /\ \E trace_request \in ServicePayloads, fault \in Faults :
        LET serialized == serialize_spans_for_db(trace_request)
            inserted == insert_spans_batch(serialized.value, pool, store, fault)
        IN  IF serialized.raised
            THEN /\ call' = [op |-> "receive_traces", request |-> trace_request,
                             insert_called |-> FALSE, insert_raised |-> FALSE,
                             raised |-> TRUE, response |-> <<>>]
                 /\ UNCHANGED <<input, output, pool, store, tasks, held>>
            ELSE /\ Len(inserted.rows) <= MaxRows
                 /\ store' = inserted.rows
                 /\ call' = [op |-> "receive_traces", request |-> trace_request,
                             insert_called |-> TRUE, insert_raised |-> inserted.raised,
                             raised |-> inserted.raised,
                             response |-> IF inserted.raised THEN <<>> ELSE PartialSuccess]
                 /\ UNCHANGED <<input, output, pool, tasks, held>>

\* insert_batch of the load test: insert_spans_batch on generated spans.
BenchInsertBatch ==
    /\ call.op = "none"
    /\ \E fault \in Faults :
        LET inserted == insert_spans_batch(<<MockSpan>>, pool, store, fault)
        IN  /\ Len(inserted.rows) <= MaxRows
            /\ store' = inserted.rows
            /\ call' = [op |-> "insert_spans_batch", insert_called |-> TRUE,
                        insert_raised |-> inserted.raised, raised |-> inserted.raised]
            /\ UNCHANGED <<input, output, pool, tasks, held>>

\* GET /v1/traces and direct calls of get_traces_paginated.
GetTracesPaginated ==
    /\ call.op = "none"
    /\ \E a \in ListArgs, fault \in Faults :
        LET f == BuildFilters(a.service, a.operation, a.start_time, a.end_time)
            kept == Matching(store, f.where_conditions, f.params)
        IN  \E order \in TraceOrders(store, kept) :
                /\ call' = [op |-> "get_traces_paginated", a |-> a,
                            error |-> ReadError(pool, fault),
                            result |-> get_traces_paginated(pool, store, a, fault, order)]
                /\ UNCHANGED <<input, output, pool, store, tasks, held>>

\* GET /v1/traces/{trace_id}
GetTraceDetail ==
    /\ call.op = "none"
    /\ \E trace_id \in TraceIdArgs, fault \in Faults :
        \E order \in DetailOrders(store, trace_id) :
            /\ call' = [op |-> "get_trace_detail", trace_id |-> trace_id,
                        error |-> ReadError(pool, fault),
                        result |-> get_trace_detail(pool, store, trace_id, fault, order)]
            /\ UNCHANGED <<input, output, pool, store, tasks, held>>

\* POST /v1/traces/query, after the text-to-SQL step.
ExecuteCustomQuery ==
    /\ call.op = "none"
    /\ \E query \in Queries, fault \in Faults :
        /\ call' = [op |-> "execute_custom_query", query |-> query,
                    error |-> QueryError(pool, query, fault),
                    result |-> execute_custom_query(pool, store, query, fault)]
        /\ store' = TableAfter(store, query, QueryError(pool, query, fault))
        /\ UNCHANGED <<input, output, pool, tasks, held>>

GetServices ==
    /\ call.op = "none"
    /\ \E fault \in Faults :
        /\ call' = [op |-> "get_services", error |-> ReadError(pool, fault),
                    result |-> get_services(pool, store, fault)]
        /\ UNCHANGED <<input, output, pool, store, tasks, held>>

\* The caller has taken the outcome of the last call; the next call may start.
Deliver ==
    /\ call.op # "none"
    /\ call' = NoCall
    /\ UNCHANGED <<input, output, pool, store, tasks, held>>

Next ==
    \/ Deliver
    \/ InitDbPool
    \/ CloseDbPool
    \/ ReceiveTraces
    \/ BenchInsertBatch
    \/ GetTracesPaginated
    \/ GetTraceDetail
    \/ ExecuteCustomQuery
    \/ GetServices

Spec == Init /\ [][Next]_vars


\* ------------------------------------------------- claims on the backend

\* C1: insert_spans_batch never raises to its caller, for any record sequence
\* and any outcome of the store or pool, and receive_traces then answers
\* {"partialSuccess": {}}.
InsertSpansBatchNeverRaises ==
    (call.op \in {"receive_traces", "insert_spans_batch"} /\ call.insert_called) =>
        /\ ~call.insert_raised
        /\ call.op = "receive_traces" => call.response = PartialSuccess

\* Whenever receive_traces reaches insert_spans_batch, with any outcome of
\* the store or pool, the call returns and the answer is the envelope.
ReceiveTracesSwallowsStorageErrors ==
    (call.op = "receive_traces" /\ call.insert_called) =>
        ~call.insert_raised /\ ~call.raised /\ call.response = PartialSuccess

IsListResponse == call.op = "get_traces_paginated" /\ ~call.result.raised

\* C3 as stated: every response of get_traces_paginated, on the success path
\* and on the error path, has has_next = (offset + limit < total) and
\* has_prev = (offset > 0).
PaginationInvariantEveryResponse ==
    IsListResponse =>
        LET p == call.result.value.extra.pagination
        IN  /\ p.has_next = (call.a.offset + call.a.limit < p.total)
            /\ p.has_prev = (call.a.offset > 0)

\* C3 amended: every response has has_next = (offset + limit < total); a
\* successful response has has_prev = (offset > 0); an error response has
\* total 0 and has_prev false whatever the offset.
PaginationInvariantOnSuccess ==
    IsListResponse =>
        LET p == call.result.value.extra.pagination
        IN  /\ p.has_next = (call.a.offset + call.a.limit < p.total)
            /\ call.result.value.success => p.has_prev = (call.a.offset > 0)
            /\ ~call.result.value.success => (p.total = 0 /\ ~p.has_prev)

\* The second page of one trace each over two stored traces.
PaginationWitness ==
    /\ IsListResponse
    /\ call.result.value.success
    /\ call.a.offset = 1
    /\ call.a.limit = 1
    /\ call.result.value.extra.pagination.total = 2
    /\ call.result.value.extra.pagination.has_prev
    /\ ~call.result.value.extra.pagination.has_next
    /\ call.result.value.count = 1

ReadOps == {"get_traces_paginated", "get_trace_detail", "execute_custom_query"}

\* C4 as stated: the three read operations never raise, in any state of the
\* store or pool, also with a pool that was never initialised, and every
\* failure comes back as an envelope with success false and an error field.
ReadsNeverRaise ==
    call.op \in ReadOps =>
        /\ ~call.result.raised
        /\ call.error # None =>
               (~call.result.value.success /\ call.result.value.error # None)

\* C4 amended: with an initialised pool the three read operations never
\* raise, and every failure comes back as an envelope with success false, no
\* rows, count 0 and the exception's message as its error field, which is
\* set only for a non-empty message; with a pool that was never initialised
\* they raise RuntimeError.
ReadsReturnEnvelopeWithPool ==
    call.op \in ReadOps =>
        IF pool = "none" THEN call.result = Raised("RuntimeError")
        ELSE /\ ~call.result.raised
             /\ call.result.value.success = (call.error = None)
             /\ call.error # None =>
                    /\ call.result.value.rows = <<>>
                    /\ call.result.value.count = 0
                    /\ call.result.value.error =
                           (IF call.error[1] # "" THEN call.error ELSE None)

\* A failed statement of the ad-hoc bridge, returned as an error envelope.
ReadsEnvelopeWitness ==
    /\ call.op = "execute_custom_query"
    /\ pool = "open"
    /\ call.error = Some("boom")
    /\ ~call.result.raised
    /\ ~call.result.value.success
    /\ call.result.value.error = Some("boom")

\* The stored rows of a trace that have no parent.
RootsOf(trace_id) ==
    {i \in 1..Len(store) : store[i].trace_id = trace_id /\ IsRootRow(store[i])}

\* C9: for a stored trace with exactly one span without a parent, every
\* summary of it that get_traces_paginated returns, under any filters, has
\* the name and the service name of that span.
SummaryNamesTheRoot ==
    (IsListResponse /\ call.result.value.success) =>
        \A i \in 1..Len(call.result.value.rows) :
            LET summary == call.result.value.rows[i]
                roots == RootsOf(summary.trace_id)
            IN  Cardinality(roots) = 1 =>
                    LET root == store[CHOOSE r \in roots : TRUE]
                    IN  /\ summary.name = root.name
                        /\ Some(summary.service_name) = root.service_name

\* The same without filters and for a root whose name is not empty.
SummaryNamesTheRootUnfiltered ==
    (IsListResponse /\ call.result.value.success
        /\ ~Truthy(call.a.service) /\ ~Truthy(call.a.operation)
        /\ ~(Truthy(call.a.start_time) /\ IsIsoFormat(call.a.start_time[1]))
        /\ ~(Truthy(call.a.end_time) /\ IsIsoFormat(call.a.end_time[1]))) =>
        \A i \in 1..Len(call.result.value.rows) :
            LET summary == call.result.value.rows[i]
                roots == RootsOf(summary.trace_id)
            IN  (Cardinality(roots) = 1 /\ store[CHOOSE r \in roots : TRUE].name # <<>>) =>
                    LET root == store[CHOOSE r \in roots : TRUE]
                    IN  /\ summary.name = root.name
                        /\ Some(summary.service_name) = root.service_name

IsDetailResponse ==
    call.op = "get_trace_detail" /\ ~call.result.raised /\ call.result.value.success

\* The stored row a span of a detail response was read from.
StoredRow(span_data) == store[CHOOSE i \in 1..Len(store) : Digits(store[i].id) = span_data.id]

\* The number a stored duration_ms attribute stands for: a JSON number, or
\* text that is a numeral.
HasNumber(jv) == jv.j = "number" \/ (jv.j = "string" /\ IsNumeral(jv.v))
NumberOf(jv) == IF jv.j = "number" THEN jv.v[1] ELSE DigitsValue(jv.v)

\* C10: in get_trace_detail a span's duration_ms is end - start whenever that
\* is not zero, and the number of the span's own duration_ms attribute when
\* end - start is zero and the attribute is present.
SpanDurationFallback ==
    IsDetailResponse =>
        \A i \in 1..Len(call.result.value.rows) :
            LET span_data == call.result.value.rows[i]
                row == StoredRow(span_data)
                diff == row.end_time_unix_nano - row.start_time_unix_nano
            IN  /\ diff # 0 => span_data.duration_ms = diff
                /\ (diff = 0 /\ row.attributes # None
                        /\ DurationKey \in DOMAIN row.attributes[1]
                        /\ HasNumber(row.attributes[1][DurationKey])) =>
                       span_data.duration_ms = NumberOf(row.attributes[1][DurationKey])

\* A trace detail with a span of equal timestamps reported with the 42 of its
\* attribute, and a span of non-zero length reported with that length although
\* it carries the attribute.
SpanDurationWitness ==
    /\ IsDetailResponse
    /\ \E i \in 1..Len(call.result.value.rows) :
           /\ call.result.value.rows[i].span_id = <<"e">>
           /\ call.result.value.rows[i].duration_ms = 42
    /\ \E i \in 1..Len(call.result.value.rows) :
           /\ call.result.value.rows[i].span_id = <<"b">>
           /\ call.result.value.rows[i].duration_ms = 1


\* ------------------------------------------------------------ apps/server

\* get_db of db/connection.py on the module's _conn_pool.
get_db(pool_now) ==
    IF pool_now = "none" THEN Raised("Exception") ELSE Returned(pool_now)

\* The row COPY writes for one tuple of serialize_spans; the nine columns
\* leave service_name NULL.
RowOfTuple(rec, id) ==
    [id |-> id, trace_id |-> rec[1], span_id |-> rec[2],
     parent_span_id |-> rec[3], name |-> rec[4],
     start_time_unix_nano |-> rec[5],
     end_time_unix_nano |-> rec[6], kind |-> rec[7],
     attributes |-> Some(rec[8]), service_name |-> None,
     resource_attributes |-> Some(rec[9])]

RECURSIVE RowsOfTuples(_, _, _)
RowsOfTuples(spans_data, i, first_id) ==
    IF i > Len(spans_data) THEN <<>>
    ELSE <<RowOfTuple(spans_data[i], first_id)>>
             \o RowsOfTuples(spans_data, i + 1, first_id + 1)

\* The outcome of insert_traces and the rows of the store after it: nothing
\* between the dependency and the return catches an exception.
insert_traces(request, pool_now, rows, fault) ==
    LET db == get_db(pool_now)
        spans_data == serialize_spans(request)
        failed(step) == [raised |-> TRUE, failed |-> step, response |-> <<>>, rows |-> rows]
    IN  IF db.raised THEN failed("get_db")
        ELSE IF AcquireError(db.value, fault) # None THEN failed("acquire")
        ELSE IF spans_data.raised THEN failed("serialize_spans")
        ELSE IF fault.at = "statement" THEN failed("copy_records_to_table")
        ELSE [raised |-> FALSE, failed |-> "", response |-> PartialSuccess,
              rows |-> rows \o RowsOfTuples(spans_data.value, 1, Len(rows) + 1)]

\* init_db of db/connection.py; create_pool may fail.
InitDb ==
    /\ call.op = "none"
    /\ \E created \in BOOLEAN :
        /\ pool' = IF pool # "none" THEN pool ELSE IF created THEN "open" ELSE "none"
        /\ call' = [op |-> "init_db", raised |-> (pool = "none" /\ ~created)]
    /\ UNCHANGED <<input, output, store, tasks, held>>

\* close_db of db/connection.py: the pool is closed, _conn_pool keeps it.
CloseDb ==
    /\ call.op = "none"
    /\ pool' = IF pool = "none" THEN "none" ELSE "closed"
    /\ call' = [op |-> "close_db"]
    /\ UNCHANGED <<input, output, store, tasks, held>>

\* get_db of db/connection.py, called on its own.
GetDb ==
    /\ call.op = "none"
    /\ call' = [op |-> "get_db", result |-> get_db(pool)]
    /\ UNCHANGED <<input, output, pool, store, tasks, held>>

\* POST /v1/traces of apps/server
InsertTraces ==
    /\ call.op = "none"
    /\ \E request \in ServicePayloads, fault \in Faults :
        LET done == insert_traces(request, pool, store, fault)
        IN  /\ Len(done.rows) <= MaxRows
            /\ store' = done.rows
            /\ call' = [op |-> "insert_traces", request |-> request, fault |-> fault,
                        raised |-> done.raised, failed |-> done.failed,
                        response |-> done.response]
            /\ UNCHANGED <<input, output, pool, tasks, held>>

NextServer ==
    \/ Deliver
    \/ InitDb
    \/ CloseDb
    \/ GetDb
    \/ InsertTraces

SpecServer == Init /\ [][NextServer]_vars

\* C2: insert_traces of apps/server answers {"partialSuccess": {}} whatever
\* the store does: when pool.acquire() or copy_records_to_table fails on an
\* open pool, the call does not raise and the answer is the envelope.
InsertTracesHidesStorageFailure ==
    (call.op = "insert_traces" /\ pool = "open" /\ call.fault.at # "none"
        /\ ~serialize_spans(call.request).raised) =>
        ~call.raised /\ call.response = PartialSuccess

\* insert_traces answers the envelope exactly when every step went through,
\* and then the spans of the request are in the store.
InsertTracesAnswersOnSuccess ==
    call.op = "insert_traces" =>
        /\ call.raised = (call.failed # "")
        /\ call.response = (IF call.raised THEN <<>> ELSE PartialSuccess)
        /\ ~call.raised => (pool = "open" /\ call.fault.at = "none")

\* C21: after any sequence of init_db and close_db calls, get_db raises or
\* returns an open pool, and it never returns a pool that close_db has
\* closed; an init_db that returns makes an open pool available, also after
\* close_db.
GetDbReturnsOpenPool ==
    /\ call.op = "get_db" => (call.result.raised \/ call.result.value = "open")
    /\ (call.op = "init_db" /\ ~call.raised) => pool = "open"

\* get_db raises exactly while no pool was ever created, and returns the
\* pool that _conn_pool holds otherwise, which close_db leaves closed and
\* init_db does not replace.
GetDbReturnsCreatedPool ==
    /\ call.op = "get_db" =>
           /\ call.result.raised = (pool = "none")
           /\ ~call.result.raised => call.result.value = pool
    /\ (call.op = "init_db" /\ ~call.raised) => pool \in {"open", "closed"}

\* get_db returns a closed pool.
GetDbReturnsClosedPool ==
    /\ call.op = "get_db"
    /\ ~call.result.raised
    /\ call.result.value = "closed"

\* init_db returns without raising and the pool stays closed.
InitDbKeepsClosedPool ==
    /\ call.op = "init_db"
    /\ ~call.raised
    /\ pool = "closed"


\* -------------------------------------------- claims on the trace detail

\* The total of the duration_ms values of the first n reported spans.
RECURSIVE ReportedTotal(_, _)
ReportedTotal(reported, n) ==
    IF n = 0 THEN 0 ELSE reported[n].duration_ms + ReportedTotal(reported, n - 1)

\* The stored rows of one trace.
RowsOfTrace(trace_id) == {i \in 1..Len(store) : store[i].trace_id = trace_id}

\* C11: for a non-empty trace the duration_ms of the trace that
\* get_trace_detail returns is the sum of the duration_ms values it reports
\* for the spans, after the fallback of each span.
TraceDurationIsSum ==
    (IsDetailResponse /\ Len(call.result.value.rows) > 0) =>
        call.result.value.extra.duration_ms
            = ReportedTotal(call.result.value.rows, Len(call.result.value.rows))

\* A trace of two spans, 0..3 and 1..2, reported with 3 + 1 and not with the
\* 3 between its earliest start and latest end.
TraceDurationWitness ==
    /\ IsDetailResponse
    /\ Len(call.result.value.rows) = 2
    /\ call.result.value.rows[1].duration_ms = 3
    /\ call.result.value.rows[2].duration_ms = 1
    /\ call.result.value.extra.duration_ms = 4

\* C20: for a non-empty trace the start_time of the trace that
\* get_trace_detail returns is the earliest start and its end_time the latest
\* end among all spans of the trace.
TraceDetailBoundsAreExtremes ==
    (IsDetailResponse /\ Len(call.result.value.rows) > 0) =>
        LET spans == RowsOfTrace(call.trace_id)
        IN  /\ call.result.value.extra.start_time
                   = isoformat(MinOf({store[i].start_time_unix_nano : i \in spans}))
            /\ call.result.value.extra.end_time
                   = isoformat(MaxOf({store[i].end_time_unix_nano : i \in spans}))

\* The start_time of the trace is the earliest start; its end_time is the end
\* of the span that starts last.
TraceDetailStartIsEarliest ==
    (IsDetailResponse /\ Len(call.result.value.rows) > 0) =>
        LET spans == RowsOfTrace(call.trace_id)
            reported == call.result.value.rows
        IN  /\ call.result.value.extra.start_time
                   = isoformat(MinOf({store[i].start_time_unix_nano : i \in spans}))
            /\ call.result.value.extra.end_time = reported[Len(reported)].end_time
            /\ \A i \in spans : store[i].start_time_unix_nano
                                   <= DigitsValue(reported[Len(reported)].start_time)


\* ------------------------------------------------ claims on the round trip

\* The store holds exactly the rows that one request wrote into the empty
\* store, and nothing was written after it.
SameJson(a, b) ==
    /\ DOMAIN a = DOMAIN b
    /\ \A k \in DOMAIN a : a[k].j = b[k].j /\ a[k].v = b[k].v

SameRow(a, b) ==
    /\ a.id = b.id /\ a.trace_id = b.trace_id /\ a.span_id = b.span_id
    /\ a.parent_span_id = b.parent_span_id /\ a.name = b.name
    /\ a.start_time_unix_nano = b.start_time_unix_nano
    /\ a.end_time_unix_nano = b.end_time_unix_nano /\ a.kind = b.kind
    /\ a.service_name = b.service_name
    /\ (a.attributes = None) = (b.attributes = None)
    /\ a.attributes # None => SameJson(a.attributes[1], b.attributes[1])
    /\ (a.resource_attributes = None) = (b.resource_attributes = None)
    /\ a.resource_attributes # None
           => SameJson(a.resource_attributes[1], b.resource_attributes[1])

WroteAlone(trace_request) ==
    LET serialized == serialize_spans_for_db(trace_request)
        written == RowsOf(serialized.value, 1, 1)
    IN  /\ ~serialized.raised
        /\ serialized.value # <<>>
        /\ \A i \in 1..Len(serialized.value) :
               serialized.value[i].service_name.t = "str"
        /\ Len(store) = Len(written)
        /\ \A i \in 1..Len(store) : SameRow(store[i], written[i])

\* The records of the request, and those of one trace.
RecordsOf(records, trace_id) ==
    {i \in 1..Len(records) : records[i].trace_id = trace_id}
ParentlessOf(records, trace_id) ==
    {i \in RecordsOf(records, trace_id) : ~Truthy(records[i].parent_span_id)}

IsUnfilteredList ==
    /\ IsListResponse
    /\ call.result.value.success
    /\ call.a.service = None /\ call.a.operation = None
    /\ call.a.start_time = None /\ call.a.end_time = None
    /\ call.a.offset = 0
    /\ call.a.limit >= Cardinality({store[i].trace_id : i \in 1..Len(store)})

\* One summary per trace of the request, with its span count and with
\* max end - min start as duration_ms.
ListCoversRequest(records) ==
    LET summaries == call.result.value.rows
        ids == {records[i].trace_id : i \in 1..Len(records)}
    IN  /\ Len(summaries) = Cardinality(ids)
        /\ {summaries[i].trace_id : i \in 1..Len(summaries)} = ids
        /\ \A i \in 1..Len(summaries) :
               LET of == RecordsOf(records, summaries[i].trace_id)
               IN  /\ summaries[i].span_count = Cardinality(of)
                   /\ summaries[i].duration_ms
                          = MaxOf({records[k].end_time_unix_nano : k \in of})
                            - MinOf({records[k].start_time_unix_nano : k \in of})

\* The summary of a trace with one parentless span has that span's name and
\* service name; with_empty says whether this is asked of an empty name too,
\* in place of the greatest name of the trace or "unknown-operation".
ListNamesParentless(records, with_empty) ==
    LET summaries == call.result.value.rows
    IN  \A i \in 1..Len(summaries) :
            LET roots == ParentlessOf(records, summaries[i].trace_id)
                root == records[CHOOSE k \in roots : TRUE]
                names == {records[k].name : k \in RecordsOf(records, summaries[i].trace_id)}
            IN  Cardinality(roots) = 1 =>
                    /\ summaries[i].service_name = root.service_name.v
                    /\ (with_empty \/ root.name # <<>>) => summaries[i].name = root.name
                    /\ (~with_empty /\ root.name = <<>>) =>
                           IF names = {<<>>} THEN summaries[i].name = UnknownOperation
                           ELSE /\ summaries[i].name \in names
                                /\ \A n \in names :
                                       n = summaries[i].name \/ StrLess(n, summaries[i].name)

\* The detail holds all spans of the trace ordered by start time ascending.
DetailCoversRequest(records) ==
    LET reported == call.result.value.rows
        of == RecordsOf(records, call.trace_id)
    IN  /\ Len(reported) = Cardinality(of)
        /\ {reported[i].span_id : i \in 1..Len(reported)}
               = {records[k].span_id : k \in of}
        /\ \A i, j \in 1..Len(reported) :
               i < j => DigitsValue(reported[i].start_time) <= DigitsValue(reported[j].start_time)

\* Every reported span has its own end - start as duration_ms.
DetailDurationsComputed ==
    \A i \in 1..Len(call.result.value.rows) :
        LET span_data == call.result.value.rows[i]
        IN  span_data.duration_ms
                = DigitsValue(span_data.end_time) - DigitsValue(span_data.start_time)

\* Every reported span has its own end - start when that is not zero, and
\* otherwise the number of its duration_ms attribute, or 0 when it has none.
DetailDurationsWithFallback ==
    \A i \in 1..Len(call.result.value.rows) :
        LET span_data == call.result.value.rows[i]
            diff == DigitsValue(span_data.end_time) - DigitsValue(span_data.start_time)
            attrs == StoredRow(span_data).attributes[1]
        IN  span_data.duration_ms =
                IF diff # 0 THEN diff
                ELSE IF DurationKey \in DOMAIN attrs /\ HasNumber(attrs[DurationKey])
                     THEN NumberOf(attrs[DurationKey])
                     ELSE 0

Tasks == 1..MaxTasks

ReadOperations ==
    {"get_services", "get_traces_paginated", "get_trace_detail", "execute_custom_query"}
Operations == {"insert_spans_batch", "insert_traces"} \cup ReadOperations

IdleTask ==
    [pc |-> "idle", op |-> "", spans_data |-> <<>>, failed |-> FALSE, raised |-> FALSE]

\* The request a task sends: one root span whose span id is the task's number.
TaskRequest(t) ==
    OneScope(<<ServiceAttr(Checkout)>>, <<OLTPSpan(T1, Digits(t), None, <<"P">>, 0, 3, <<>>)>>)

\* What a task hands to insert_spans_batch: nothing, the records of its
\* request, or a span of the load test.
TaskRecords(t) ==
    {<<>>, serialize_spans_for_db(TaskRequest(t)).value, <<MockSpan>>}

\* async with pool.acquire() as conn: __aenter__ takes a connection out of
\* the pool and __aexit__ gives it back, an exception in the block or not.
aenter(held_now) == held_now + 1

\* __aexit__ that gives the connection back only after a block without
\* exception.
aexit_after_success(held_now, failed) == IF failed THEN held_now ELSE held_now - 1

aexit(held_now, failed) == held_now - 1

\* What the caller gets when the block of an operation raised: only
\* insert_traces has no except clause around it.
RaisesOnFailure(op) == op = "insert_traces"

\* The pool is None, open, or closed by close_db_pool before the calls; every
\* task makes one call.
InitCalls ==
    /\ input = <<>>
    /\ output = NotRun
    /\ pool \in {"none", "open", "closed"}
    /\ store = <<>>
    /\ call = NoCall
    /\ tasks = [t \in Tasks |-> IdleTask]
    /\ held = 0

\* A call runs up to its first await: the early return of insert_spans_batch
\* on no records, the KeyError of building the records, the RuntimeError of a
\* read operation and the Exception of get_db on a pool that is None.
Call(t) ==
    /\ tasks[t].pc = "idle"
    /\ \E op \in Operations :
        \E spans_data \in IF op = "insert_spans_batch" THEN TaskRecords(t)
                          ELSE IF op = "insert_traces"
                               THEN {serialize_spans(TaskRequest(t)).value}
                               ELSE {<<>>} :
            LET started == [IdleTask EXCEPT !.op = op, !.spans_data = spans_data]
                raise == [started EXCEPT !.pc = "done", !.raised = TRUE]
            IN  tasks' = [tasks EXCEPT ![t] =
                    IF op = "insert_spans_batch"
                    THEN IF spans_data = <<>> THEN [started EXCEPT !.pc = "done"]
                         ELSE IF \E i \in 1..Len(spans_data) :
                                     ~(Columns \subseteq DOMAIN spans_data[i])
                              THEN raise
                              ELSE [started EXCEPT !.pc = "acquire"]
                    ELSE IF pool = "none" THEN raise
                    ELSE [started EXCEPT !.pc = "acquire"]]
    /\ UNCHANGED <<input, output, pool, store, call, held>>

\* pool.acquire(): a connection, or an exception that leaves the try block.
Acquire(t) ==
    /\ tasks[t].pc = "acquire"
    /\ \E fault \in {f \in Faults : f.at # "statement"} :
        IF AcquireError(pool, fault) # None
        THEN /\ tasks' = [tasks EXCEPT ![t] =
                    [@ EXCEPT !.pc = "done", !.failed = TRUE,
                              !.raised = RaisesOnFailure(tasks[t].op)]]
             /\ held' = held
        ELSE /\ tasks' = [tasks EXCEPT ![t] = [@ EXCEPT !.pc = "block"]]
             /\ held' = aenter(held)
    /\ UNCHANGED <<input, output, pool, store, call>>

\* The statement inside the block: the COPY of the two write operations, the
\* fetch of the read operations.
Block(t) ==
    /\ tasks[t].pc = "block"
    /\ \E fault \in {f \in Faults : f.at # "acquire"} :
        LET rows == IF tasks[t].op = "insert_spans_batch"
                    THEN RowsOf(tasks[t].spans_data, 1, Len(store) + 1)
                    ELSE IF tasks[t].op = "insert_traces"
                         THEN RowsOfTuples(tasks[t].spans_data, 1, Len(store) + 1)
                         ELSE <<>>
        IN  IF fault.at = "statement"
            THEN /\ tasks' = [tasks EXCEPT ![t] = [@ EXCEPT !.pc = "exit", !.failed = TRUE]]
                 /\ store' = store
            ELSE /\ tasks' = [tasks EXCEPT ![t] = [@ EXCEPT !.pc = "exit"]]
                 /\ store' = store \o rows
    /\ UNCHANGED <<input, output, pool, call, held>>

\* Leaving the async with block, then the except clause or the return.
Exit(t) ==
    /\ tasks[t].pc = "exit"
    /\ held' = aexit(held, tasks[t].failed)
    /\ tasks' = [tasks EXCEPT ![t] =
            [@ EXCEPT !.pc = "done",
                      !.raised = tasks[t].failed /\ RaisesOnFailure(tasks[t].op)]]
    /\ UNCHANGED <<input, output, pool, store, call>>

Calls == \E t \in Tasks : Call(t)
Acquires == \E t \in Tasks : Acquire(t)
Blocks == \E t \in Tasks : Block(t)
Exits == \E t \in Tasks : Exit(t)

NextCalls ==
    \/ Calls
    \/ Acquires
    \/ Blocks
    \/ Exits

SpecCalls == InitCalls /\ [][NextCalls]_vars


\* ------------------------------------------ claims on overlapping calls

\* C13: in every reachable state the number of connections taken out of the
\* pool is the number of calls between pool.acquire() and the end of their
\* async with block, whatever succeeded or failed before; a call that has
\* returned or raised holds none.
ConnectionsHeldByCallsInBlock ==
    held = Cardinality({t \in Tasks : tasks[t].pc \in {"block", "exit"}})

\* One call whose statement failed has not left its block yet, so its
\* connection is still out, while another call holds a second connection.
ConnectionsHeldWitness ==
    /\ held = 2
    /\ \E t \in Tasks : tasks[t].pc = "exit" /\ tasks[t].failed
    /\ \E t \in Tasks : tasks[t].pc = "block"

\* The rows insert_spans_batch of task t has in the store.
WrittenBy(t) ==
    {i \in 1..Len(store) : store[i].span_id = Digits(t) /\ store[i].service_name # None}

\* C14: in every interleaving of insert_spans_batch calls every call returns
\* normally, and the records of a call are written unless the pool or the
\* COPY failed for that very call.
InsertCallsIndependent ==
    \A t \in Tasks :
        (tasks[t].op = "insert_spans_batch" /\ tasks[t].pc = "done") =>
            /\ ~tasks[t].raised
            /\ Cardinality(WrittenBy(t))
                   = (IF tasks[t].failed THEN 0 ELSE Len(tasks[t].spans_data))

\* The same for calls whose records have every column.
CompleteInsertCallsIndependent ==
    \A t \in Tasks :
        (tasks[t].op = "insert_spans_batch" /\ tasks[t].pc = "done"
            /\ \A i \in 1..Len(tasks[t].spans_data) :
                   Columns \subseteq DOMAIN tasks[t].spans_data[i]) =>
            /\ ~tasks[t].raised
            /\ Cardinality(WrittenBy(t))
                   = (IF tasks[t].failed THEN 0 ELSE Len(tasks[t].spans_data))


\* ------------------------------------------------- claims on the store

\* Every row of the store is in the next store at its place, unchanged.
RowsKept ==
    /\ Len(store') >= Len(store)
    /\ \A i \in 1..Len(store) : SameRow(store'[i], store[i])

\* C15 as stated: no operation of the core, the ad-hoc query with any query
\* string included, updates or deletes a row that was written.
StoreIsInsertOnly == [][RowsKept]_vars

\* The step is an ad-hoc query whose statement changes rows.
IsMutatingQuery ==
    /\ call'.op = "execute_custom_query"
    /\ call'.query \notin {"SELECT * FROM spans", "SELEC"}

\* C15 amended: ingestion, trace list, trace detail, get_services and an
\* ad-hoc query that only reads or that the store rejects keep every written
\* row unchanged; a statement that changes rows, given to the ad-hoc query,
\* takes full effect.
StoreIsInsertOnlyButForQueries ==
    [][/\ ~IsMutatingQuery => RowsKept
       /\ (IsMutatingQuery /\ call'.error = None) => store' = <<>>]_vars

\* An ad-hoc SELECT over a store of two rows returned both and the store
\* still holds them.
StoreKeptWitness ==
    /\ call.op = "execute_custom_query"
    /\ call.query = "SELECT * FROM spans"
    /\ ~call.result.raised
    /\ call.result.value.success
    /\ call.result.value.count = 2
    /\ Len(store) = 2


\* ------------------------------- specification: the filters of the list

FilterArgs ==
    [offset : {0, 1}, limit : {1, 2},
     service : {None, Some(<<>>), Some(Checkout)},
     operation : {None, Some(<<"D">>)},
     start_time : {None, Some(<<"b">>), Some(<<"1">>)},
     end_time : {None, Some(<<"b">>), Some(<<"2">>)}]

InitFilters == input \in FilterArgs /\ output = NotRun /\ Idle

BuildQuery ==
    /\ output.done = 0
    /\ output' = [done |-> 1, query |-> BuiltQuery(input)]
    /\ UNCHANGED <<input, pool, store, call, tasks, held>>

SpecFilters == InitFilters /\ [][BuildQuery]_vars

\* The columns of the filters that are accepted, in the order of the code: a
\* filter that is given and not empty, and for the two times also parsable.
AcceptedColumns(a) ==
    (IF a.service # None /\ a.service[1] # <<>> THEN <<"service_name">> ELSE <<>>)
    \o (IF a.operation # None /\ a.operation[1] # <<>> THEN <<"name">> ELSE <<>>)
    \o (IF a.start_time # None /\ a.start_time[1] # <<>> /\ IsNumeral(a.start_time[1])
        THEN <<"start_time_unix_nano">> ELSE <<>>)
    \o (IF a.end_time # None /\ a.end_time[1] # <<>> /\ IsNumeral(a.end_time[1])
        THEN <<"end_time_unix_nano">> ELSE <<>>)

\* C16: the built query has one predicate and one parameter per accepted
\* filter, none for an unparsable time, the predicates use $1..$k in the order
\* of the k filter parameters, OFFSET and LIMIT use $k+1 and $k+2, which are
\* bound to offset and limit, and count_query gets exactly the k filter
\* parameters.
FiltersBindInOrder ==
    output.done = 1 =>
        LET q == output.query
            accepted == AcceptedColumns(input)
            k == Len(accepted)
        IN  /\ Len(q.where_conditions) = k
            /\ Len(q.params) = k + 2
            /\ \A i \in 1..k : /\ q.where_conditions[i].param = i
                               /\ q.where_conditions[i].column = accepted[i]
            /\ q.offset_param = k + 1
            /\ q.limit_param = k + 2
            /\ q.params[k + 1] = TInt(input.offset)
            /\ q.params[k + 2] = TInt(input.limit)
            /\ Len(q.count_params) = k
            /\ \A i \in 1..k : /\ q.count_params[i].t = q.params[i].t
                               /\ q.count_params[i].v = q.params[i].v
            /\ \A i \in 1..k :
                   q.params[i].t = (IF accepted[i] \in {"service_name", "name"}
                                    THEN "str" ELSE "datetime")

\* A service filter, a start time that does not parse and an end time that
\* does: two predicates with $1 and $2, OFFSET $3 and LIMIT $4.
FiltersWitness ==
    /\ output.done = 1
    /\ input.service = Some(Checkout)
    /\ input.operation = None
    /\ input.start_time = Some(<<"b">>)
    /\ input.end_time = Some(<<"2">>)
    /\ Len(output.query.where_conditions) = 2
    /\ output.query.where_conditions[2].column = "end_time_unix_nano"
    /\ output.query.where_conditions[2].param = 2
    /\ output.query.offset_param = 3
    /\ output.query.limit_param = 4


\* ------------------------------------------ claims on the trace summaries

\* The list call had no filter that the code accepts.
CalledWithoutFilters ==
    /\ ~Truthy(call.a.service) /\ ~Truthy(call.a.operation)
    /\ ~(Truthy(call.a.start_time) /\ IsIsoFormat(call.a.start_time[1]))
    /\ ~(Truthy(call.a.end_time) /\ IsIsoFormat(call.a.end_time[1]))

\* The summary has the name and the service name of stored row i, an empty
\* name and a NULL or empty service name being reported by their
\* placeholders.
NamedBy(summary, i) ==
    /\ summary.name = (IF store[i].name = <<>> THEN UnknownOperation ELSE store[i].name)
    /\ summary.service_name = (IF Truthy(store[i].service_name)
                               THEN store[i].service_name[1] ELSE UnknownService)

\* C17: in every summary that get_traces_paginated returns, the name and the
\* service name are those of one stored span of the trace: of a span without
\* a parent when the trace has one, of some span of the trace otherwise.
SummaryFromOneSpan ==
    (IsListResponse /\ call.result.value.success) =>
        \A i \in 1..Len(call.result.value.rows) :
            LET summary == call.result.value.rows[i]
                roots == RootsOf(summary.trace_id)
            IN  IF roots # {}
                THEN \E r \in roots : NamedBy(summary, r)
                ELSE \E r \in RowsOfTrace(summary.trace_id) : NamedBy(summary, r)

\* Without filters, a trace whose only span without a parent has a name is
\* reported with the name and the service name of that span.
SummaryFromOneSpanUnfiltered ==
    (IsListResponse /\ call.result.value.success /\ CalledWithoutFilters) =>
        \A i \in 1..Len(call.result.value.rows) :
            LET summary == call.result.value.rows[i]
                roots == RootsOf(summary.trace_id)
            IN  (Cardinality(roots) = 1 /\ store[CHOOSE r \in roots : TRUE].name # <<>>) =>
                    \E r \in roots : NamedBy(summary, r)

\* A trace without a root whose summary takes the name of one span and the
\* service name of another.
SummaryFromTwoSpans ==
    /\ IsListResponse /\ call.result.value.success /\ CalledWithoutFilters
    /\ \E i \in 1..Len(call.result.value.rows) :
           LET summary == call.result.value.rows[i]
               spans == RowsOfTrace(summary.trace_id)
           IN  /\ RootsOf(summary.trace_id) = {}
               /\ \E r \in spans : summary.name = store[r].name
               /\ \E r \in spans : Some(summary.service_name) = store[r].service_name
               /\ ~\E r \in spans : NamedBy(summary, r)

\* C18: every summary that get_traces_paginated returns, under any filters,
\* counts all stored spans of the trace, starts at their earliest start, ends
\* at their latest end and lasts the difference.
SummaryDescribesWholeTrace ==
    (IsListResponse /\ call.result.value.success) =>
        \A i \in 1..Len(call.result.value.rows) :
            LET summary == call.result.value.rows[i]
                spans == RowsOfTrace(summary.trace_id)
                earliest == MinOf({store[r].start_time_unix_nano : r \in spans})
                latest == MaxOf({store[r].end_time_unix_nano : r \in spans})
            IN  /\ summary.span_count = Cardinality(spans)
                /\ summary.start_time = isoformat(earliest)
                /\ summary.end_time = isoformat(latest)
                /\ summary.duration_ms = latest - earliest

\* Without filters every summary describes the whole trace.
SummaryDescribesWholeTraceUnfiltered ==
    (IsListResponse /\ call.result.value.success /\ CalledWithoutFilters) =>
        \A i \in 1..Len(call.result.value.rows) :
            LET summary == call.result.value.rows[i]
                spans == RowsOfTrace(summary.trace_id)
                earliest == MinOf({store[r].start_time_unix_nano : r \in spans})
                latest == MaxOf({store[r].end_time_unix_nano : r \in spans})
            IN  /\ summary.span_count = Cardinality(spans)
                /\ summary.start_time = isoformat(earliest)
                /\ summary.end_time = isoformat(latest)
                /\ summary.duration_ms = latest - earliest


\* ------------------------------------- specification: paging through the list

T3 == <<"t", "3">>
SF == OLTPSpan(T3, <<"f">>, None, <<"Q">>, 2, 3, <<>>)

\* The spans of three traces; the traces of SC and SF start together.
PagingSpans == {SA, SB, SC, SF}

\* The stores left by one ingestion of up to MaxRows of these spans.
PagingStores ==
    { RowsOf(serialize_spans_for_db(OneScope(<<ServiceAttr(Checkout)>>, spans)).value, 1, 1) :
          spans \in SeqsUpTo(PagingSpans, MaxRows) }

\* The filters and the limit that every call of one walk repeats.
PagingArgs == [limit : {1, 2}, start_time : {None, Some(<<"1">>)}]

\* The arguments of the call for the page at offset.
PageArgs(offset) ==
    [offset |-> offset, limit |-> input.limit, service |-> None, operation |-> None,
     start_time |-> input.start_time, end_time |-> None]

InitPaging ==
    /\ input \in PagingArgs
    /\ output = [done |-> 0, failed |-> FALSE, pages |-> <<>>]
    /\ pool = "open"
    /\ store \in PagingStores
    /\ call = NoCall
    /\ tasks = NoTasks
    /\ held = 0

\* One more call of get_traces_paginated, at the offset after the pages read
\* so far; the walk ends with the first response that is an error or has no
\* next page.
NextPage ==
    /\ output.done = 0
    /\ \E fault \in Faults :
        LET a == PageArgs(Len(output.pages) * input.limit)
            f == BuildFilters(a.service, a.operation, a.start_time, a.end_time)
            kept == Matching(store, f.where_conditions, f.params)
        IN  \E order \in TraceOrders(store, kept) :
                LET response == get_traces_paginated(pool, store, a, fault, order).value
                IN  output' = IF response.success
                              THEN [done |-> IF response.extra.pagination.has_next
                                             THEN 0 ELSE 1,
                                    failed |-> FALSE,
                                    pages |-> Append(output.pages, response.rows)]
                              ELSE [done |-> 1, failed |-> TRUE, pages |-> output.pages]
    /\ UNCHANGED <<input, pool, store, call, tasks, held>>

SpecPaging == InitPaging /\ [][NextPage]_vars

\* The summaries of the pages, one after the other.
RECURSIVE Listed(_, _)
Listed(pages, n) == IF n = 0 THEN <<>> ELSE Listed(pages, n - 1) \o pages[n]

\* The earliest start among the stored spans of a trace that pass the
\* filters of the walk.
EarliestMatching(trace_id) ==
    LET f == BuildFilters(None, None, input.start_time, None)
        kept == Matching(store, f.where_conditions, f.params)
    IN  MinOf({store[i].start_time_unix_nano :
                  i \in {r \in kept : store[r].trace_id = trace_id}})

\* The traces with a stored span that passes the filters of the walk.
MatchingTraces ==
    LET f == BuildFilters(None, None, input.start_time, None)
    IN  KeptTraceIds(store, Matching(store, f.where_conditions, f.params))

\* The pages of a finished walk hold every matching trace once, in the order
\* of earliest start descending.
PagesPartition ==
    LET listed == Listed(output.pages, Len(output.pages))
    IN  /\ Len(listed) = Cardinality(MatchingTraces)
        /\ {listed[i].trace_id : i \in 1..Len(listed)} = MatchingTraces
        /\ \A i, j \in 1..Len(listed) :
               i < j => DigitsValue(listed[i].start_time) >= DigitsValue(listed[j].start_time)

\* C19: on an unchanged store, the pages that get_traces_paginated returns
\* at offsets 0, limit, 2*limit, ... with the same filters and limit hold
\* every matching trace exactly once, ordered by earliest start descending,
\* also when traces share their earliest start.
PaginationIsStable ==
    (output.done = 1 /\ ~output.failed) => PagesPartition

\* C19 amended: the same when no two matching traces share their earliest
\* start.
PaginationIsStableWithoutTies ==
    (output.done = 1 /\ ~output.failed
        /\ \A t, u \in MatchingTraces : t # u => EarliestMatching(t) # EarliestMatching(u))
        => PagesPartition

\* Two pages of one trace each over two traces that start at 0 and at 2.
PaginationStableWitness ==
    /\ output.done = 1 /\ ~output.failed
    /\ input.limit = 1
    /\ Len(output.pages) = 2
    /\ Len(output.pages[1]) = 1 /\ output.pages[1][1].trace_id = T2
    /\ Len(output.pages[2]) = 1 /\ output.pages[2][1].trace_id = T1
    /\ output.pages[2][1].start_time = isoformat(0)

\* Two traces that both start at 2, read with limit 1: the same trace on
\* both pages, the other on none.
PaginationRepeatsTrace ==
    /\ output.done = 1 /\ ~output.failed
    /\ Len(output.pages) = 2
    /\ Len(output.pages[1]) = 1 /\ Len(output.pages[2]) = 1
    /\ output.pages[1][1].trace_id = output.pages[2][1].trace_id
    /\ Cardinality(MatchingTraces) = 2


\* ------------------------- specification: a list call among ingestions

\* Requests of one span each, of three traces and three services.
ListingPayloads ==
    { OneScope(<<ServiceAttr(Checkout)>>, <<SA>>),
      OneScope(<<ServiceAttr(Checkout)>>, <<SB>>),
      OneScope(<<>>, <<SC>>),
      OneScope(<<ServiceAttr(Api)>>, <<SF>>) }

ListingArgs ==
    [offset : {0, 1}, limit : {1, 2}, service : {None, Some(Checkout)},
     operation : {None}, start_time : {None}, end_time : {None}]

InitListing ==
    /\ input = <<>>
    /\ output = [pc |-> "idle"]
    /\ pool = "open"
    /\ store = <<>>
    /\ call = NoCall
    /\ tasks = NoTasks
    /\ held = 0

\* insert_spans_batch of another request, at any moment of the list call.
Ingest ==
    /\ \E trace_request \in ListingPayloads, fault \in Faults :
        LET inserted == insert_spans_batch(serialize_spans_for_db(trace_request).value,
                                           pool, store, fault)
        IN  /\ Len(inserted.rows) <= MaxRows
            /\ store' = inserted.rows
    /\ UNCHANGED <<input, output, pool, call, tasks, held>>

\* get_traces_paginated up to and with conn.fetch(traces_query, *params); a
\* failure ends the call in the except clause.
FetchTraces ==
    /\ output.pc = "idle"
    /\ \E a \in ListingArgs, fault \in Faults :
        LET f == BuildFilters(a.service, a.operation, a.start_time, a.end_time)
            kept == Matching(store, f.where_conditions, f.params)
        IN  \E order \in TraceOrders(store, kept) :
                output' = IF ReadError(pool, fault) # None
                          THEN [pc |-> "done", a |-> a, rows |-> store,
                                result |-> get_traces_paginated_between(
                                               pool, store, store, a, fault, order)]
                          ELSE [pc |-> "fetched", a |-> a, fault |-> fault,
                                rows |-> store, order |-> order]
    /\ UNCHANGED <<input, pool, store, call, tasks, held>>

\* conn.fetchrow(count_query, *params[:-2]) and the rest of the call.
FetchCount ==
    /\ output.pc = "fetched"
    /\ output' = [pc |-> "done", a |-> output.a, rows |-> output.rows,
                  result |-> get_traces_paginated_between(
                                 pool, output.rows, store, output.a, output.fault,
                                 output.order)]
    /\ UNCHANGED <<input, pool, store, call, tasks, held>>

\* The caller takes the response.
ReturnList ==
    /\ output.pc = "done"
    /\ output' = [pc |-> "idle"]
    /\ UNCHANGED <<input, pool, store, call, tasks, held>>

NextListing == Ingest \/ FetchTraces \/ FetchCount \/ ReturnList

SpecListing == InitListing /\ [][NextListing]_vars

\* C22: in every interleaving with insert_spans_batch calls, a successful
\* response of get_traces_paginated with a page that is not empty has
\* offset + number of rows <= pagination.total, at most limit rows, and count
\* equal to the number of rows.
ListConsistentUnderIngestion ==
    (output.pc = "done" /\ ~output.result.raised /\ output.result.value.success
        /\ Len(output.result.value.rows) > 0) =>
        LET response == output.result.value
        IN  /\ output.a.offset + Len(response.rows) <= response.extra.pagination.total
            /\ Len(response.rows) <= output.a.limit
            /\ response.count = Len(response.rows)

\* A call with limit 2 that read one trace and counted two: the second trace
\* was written between the two statements.
ListAmongIngestionWitness ==
    /\ output.pc = "done" /\ ~output.result.raised /\ output.result.value.success
    /\ output.a.offset = 0 /\ output.a.limit = 2 /\ output.a.service = None
    /\ Len(output.rows) = 1 /\ Len(store) = 2
    /\ Len(output.result.value.rows) = 1
    /\ output.result.value.extra.pagination.total = 2


====
